---- MODULE Spec2Model ----
(***************************************************************************)
(* State-machine model of the tundra e-commerce backend:                   *)
(*   - internal/server/routes.go : the HTTP handlers (orders, products,    *)
(*     product-listing cache) and the route table;                         *)
(*   - internal/auth/middleware.go : what AuthMiddleware puts in the       *)
(*     request context;                                                    *)
(*   - internal/ratelimit : the per-IP rate-limit middleware.              *)
(* The relational database is modelled by its committed tables, one write  *)
(* buffer per open transaction and one exclusive row lock per product row  *)
(* (SELECT ... FOR UPDATE, held until COMMIT or ROLLBACK).                 *)
(***************************************************************************)
EXTENDS Integers, Sequences, FiniteSets, TLC

\* ------------------------------------------------------------------ bounds
MaxStock == 2
MaxOrders == 2
\* The requests one run of the rate-limit specification sends.
MaxRequests == 3
MaxClock == 3

\* -------------------------------------------------------------- universes
PIDs  == {"p1", "p2"}
Txs   == {"t1", "t2"}
Users == {"u1"}
NoTx  == "none"
NoRow == [name |-> "", price |-> 0, stock |-> 0]
\* A product row that was deleted: its id is never handed out again.
Gone  == [name |-> "", price |-> 0, stock |-> -1]

Names  == {"ax", "b"}
Prices == {1}

ProductRows == [name : Names, price : Prices, stock : 0..MaxStock]

\* The rows the initial catalogue may hold for product p.
SeedRows(p) == {r \in ProductRows : r.name = (IF p = "p1" THEN "ax" ELSE "b")}

\* The value found under "userID" in the gin context.
\*   none   : the key is absent
\*   string : the value AuthMiddleware stores (claims.UserID)
\*   uuid   : a uuid.UUID value, the type createOrderHandler asserts
CtxKinds == {"none", "string", "uuid"}
Contexts == [kind : CtxKinds, user : Users]

\* c.Set("userID", claims.UserID): the context a request has after
\* AuthMiddleware accepted its token.
AuthMiddleware(u) == [kind |-> "string", user |-> u]

\* Requested quantities; 0 is refused by the binding (gt=0).
Qtys == {0, 1, 2}
OrderItems == [pid : PIDs, qty : Qtys]

\* Request bodies: a JSON array of no, one or two items.
OrderBodies == {<<>>} \cup {<<a>> : a \in OrderItems}
                      \cup {<<a, b>> : a \in OrderItems, b \in OrderItems}

VARIABLES
  products,       \* committed products table: PIDs -> row or NoRow
  rowLock,        \* row lock of each product row: holder or NoTx
  orders,         \* committed orders table (set of rows)
  orderProducts,  \* committed order_products table (set of rows)
  otx,            \* one createOrderHandler invocation per slot
  redisPresent,   \* s.redis # nil
  redis,          \* the Redis keys products:* : cache key -> cached response
  lreq,           \* the listProductsHandler invocation in flight
  ureq,           \* the updateProductHandler invocation in flight
  stock0,         \* history: the products table of the initial state
  rate,           \* the limiters' in-memory stores: limiter -> key -> entry
  sent,           \* history: the number of requests sent through the router
  users,          \* committed users table (set of rows)
  sreq,           \* the signUpHandler invocations in flight, one per slot
  ginCtx,         \* the gin context of the request the guarded routes dispatch
  lastEvt         \* history: the last response written

vars == <<products, rowLock, orders, orderProducts, otx, redisPresent, redis,
          lreq, ureq, stock0, rate, sent, users, sreq, ginCtx, lastEvt>>

dbVars    == <<products, orders, orderProducts>>
cacheVars == <<redisPresent, redis, lreq>>
rateVars  == <<rate, sent>>
authVars  == <<users, sreq, ginCtx>>

IdleTx == [pc |-> "idle", ctx |-> [kind |-> "none", user |-> "u1"], items |-> <<>>,
           idx |-> 0, cur |-> NoRow, writes |-> [p \in PIDs |-> NoRow],
           ops |-> <<>>, total |-> 0, created |-> 0]

\* lastEvt records the last response written: the handler step that wrote it
\* (op), the slot, product or cache key it is about (who), the status code,
\* the body where the model needs it, and a count n: for createOrderHandler
\* the number of items whose stock write was pending in the transaction the
\* step ended, for the product handlers the number of cache keys their
\* invalidation deleted. A step that writes no response leaves NoEvt.
NoEvt == [op |-> "step", who |-> NoTx, status |-> 0, n |-> 0, body |-> <<>>]
Evt(op, who, status) ==
  IF status = 0 THEN NoEvt
  ELSE [op |-> op, who |-> who, status |-> status,
        n |-> IF who \in Txs THEN Len(otx[who].ops) ELSE 0, body |-> <<>>]
EvtBody(op, who, status, body) ==
  [op |-> op, who |-> who, status |-> status, n |-> 0, body |-> body]
EvtCount(op, who, status, n) ==
  [op |-> op, who |-> who, status |-> status, n |-> n, body |-> <<>>]

\* ------------------------------------------------- database primitives
\* tx.Rollback(): the transaction's writes are discarded, its row locks released.
Rollback(t) == [p \in PIDs |-> IF rowLock[p] = t THEN NoTx ELSE rowLock[p]]

\* The row of p as transaction t sees it: its own uncommitted write, else the
\* committed row.
Visible(t, p) == IF otx[t].writes[p] # NoRow THEN otx[t].writes[p] ELSE products[p]

\* WHERE id = ? ... First(&product) finds a row.
Found(row) == row \notin {NoRow, Gone}

\* binding:"required" on productId, binding:"required,gt=0" on quantity.
ValidBody(items) == \A i \in 1..Len(items) : items[i].qty > 0

NextOrderID == Cardinality(orders) + 1

\* created_at (autoCreateTime) of an order row inserted now: later than that
\* of every order row written so far, committed or not. Only the order of the
\* stamps matters.
Now ==
  LET stamps == {o.created : o \in orders} \cup {otx[t].created : t \in Txs}
  IN 1 + CHOOSE m \in stamps \cup {0} : \A x \in stamps : x <= m

\* ------------------------------------------------- createOrderHandler
\* Variant: the stock writes go to s.db instead of tx, so they stay when the
\* handler gives up.
AbortKeepsWrites(t, op, code) ==
  /\ otx' = [otx EXCEPT ![t] = IdleTx]
  /\ rowLock' = Rollback(t)
  /\ lastEvt' = Evt(op, t, code)
  /\ products' = [p \in PIDs |-> Visible(t, p)]
  /\ UNCHANGED <<orders, orderProducts, cacheVars, ureq, stock0, rateVars, authVars>>

\* The handler of slot t returns with status `code`: the response is recorded,
\* the transaction (if any) is rolled back and the slot is free again.
Abort(t, op, code) ==
  /\ otx' = [otx EXCEPT ![t] = IdleTx]
  /\ rowLock' = Rollback(t)
  /\ lastEvt' = Evt(op, t, code)
  /\ UNCHANGED <<dbVars, cacheVars, ureq, stock0, rateVars, authVars>>

\* The handler of slot t moves on to its next statement.
Goto(t, next) ==
  /\ otx' = [otx EXCEPT ![t] = next]
  /\ lastEvt' = NoEvt
  /\ UNCHANGED <<dbVars, cacheVars, ureq, stock0, rateVars, authVars>>

\* Lines 726-760: context lookup, body binding, s.db.Begin().
createOrderBegin(t, ctx, items, beginOk) ==
  /\ otx[t].pc = "idle"
  /\ Cardinality(orders) < MaxOrders
  /\ IF ctx.kind = "none" THEN Abort(t, "createOrderBegin", 401)
     ELSE IF ~ValidBody(items) \/ Len(items) = 0 THEN Abort(t, "createOrderBegin", 400)
     ELSE IF ~beginOk THEN Abort(t, "createOrderBegin", 500)
     ELSE /\ Goto(t, [IdleTx EXCEPT !.pc = "lock", !.ctx = ctx, !.items = items, !.idx = 1])
          /\ UNCHANGED rowLock

\* Variant: a plain SELECT (no FOR UPDATE): the read neither waits for the
\* row lock nor takes it.
createOrderLockNoWait(t) ==
  LET p == otx[t].items[otx[t].idx].pid IN
  /\ otx[t].pc = "lock"
  /\ IF ~Found(Visible(t, p)) THEN Abort(t, "createOrderLock", 404)
     ELSE /\ Goto(t, [otx[t] EXCEPT !.pc = "check", !.cur = Visible(t, p)])
          /\ UNCHANGED rowLock

\* Variant: the rows are locked from the last item of the request to the first.
createOrderLockLast(t) ==
  LET p == otx[t].items[Len(otx[t].items) + 1 - otx[t].idx].pid IN
  /\ otx[t].pc = "lock"
  /\ rowLock[p] \in {NoTx, t}
  /\ IF ~Found(Visible(t, p)) THEN Abort(t, "createOrderLock", 404)
     ELSE /\ Goto(t, [otx[t] EXCEPT !.pc = "check", !.cur = Visible(t, p)])
          /\ rowLock' = [rowLock EXCEPT ![p] = t]
\* Line 770: SELECT ... FOR UPDATE of the item's product row. The statement
\* waits while another transaction holds the row lock.
createOrderLock(t) ==
  LET p == otx[t].items[otx[t].idx].pid IN
  /\ otx[t].pc = "lock"
  /\ rowLock[p] \in {NoTx, t}
  /\ IF ~Found(Visible(t, p)) THEN Abort(t, "createOrderLock", 404)
     ELSE /\ Goto(t, [otx[t] EXCEPT !.pc = "check", !.cur = Visible(t, p)])
          /\ rowLock' = [rowLock EXCEPT ![p] = t]

\* Variant: the requested quantity is not compared with the stock.
createOrderCheckSkipped(t) ==
  LET it == otx[t].items[otx[t].idx] IN
  /\ otx[t].pc = "check"
  /\ Goto(t, [otx[t] EXCEPT !.pc = "save", !.total = @ + otx[t].cur.price * it.qty])
  /\ UNCHANGED rowLock
\* Lines 777-785: the stock check on the row read under the lock.
createOrderCheck(t) ==
  LET it == otx[t].items[otx[t].idx] IN
  /\ otx[t].pc = "check"
  /\ IF otx[t].cur.stock < it.qty THEN Abort(t, "createOrderCheck", 400)
     ELSE /\ Goto(t, [otx[t] EXCEPT !.pc = "save", !.total = @ + otx[t].cur.price * it.qty])
          /\ UNCHANGED rowLock

\* Variant: the row lock is given up as soon as the stock is written (the
\* statements run outside one transaction).
createOrderSaveUnlocks(t, saveOk) ==
  LET it  == otx[t].items[otx[t].idx]
      row == [otx[t].cur EXCEPT !.stock = @ - it.qty] IN
  /\ otx[t].pc = "save"
  /\ IF ~saveOk THEN Abort(t, "createOrderSave", 500)
     ELSE /\ Goto(t, [otx[t] EXCEPT
                  !.writes[it.pid] = row,
                  !.cur = NoRow,
                  !.ops = Append(@, [pid |-> it.pid, qty |-> it.qty, price |-> row.price]),
                  !.idx = @ + 1,
                  !.pc = IF otx[t].idx < Len(otx[t].items) THEN "lock" ELSE "create"])
          /\ rowLock' = [rowLock EXCEPT ![it.pid] = NoTx]

\* Lines 788-800: product.Stock -= quantity; tx.Save(&product); append the
\* order_products entry.
createOrderSave(t, saveOk) ==
  LET it  == otx[t].items[otx[t].idx]
      row == [otx[t].cur EXCEPT !.stock = @ - it.qty] IN
  /\ otx[t].pc = "save"
  /\ IF ~saveOk THEN Abort(t, "createOrderSave", 500)
     ELSE /\ Goto(t, [otx[t] EXCEPT
                  !.writes[it.pid] = row,
                  !.cur = NoRow,
                  !.ops = Append(@, [pid |-> it.pid, qty |-> it.qty, price |-> row.price]),
                  !.idx = @ + 1,
                  !.pc = IF otx[t].idx < Len(otx[t].items) THEN "lock" ELSE "create"])
          /\ UNCHANGED rowLock

\* Lines 804-815: build the order row and insert it. userID.(uuid.UUID) is a
\* type assertion on the context value: on any other dynamic type it panics,
\* the deferred recover() rolls the transaction back and swallows the panic,
\* and the handler returns without having written a response (gin then sends
\* its default status 200 with an empty body).
createOrderCreate(t, createOk) ==
  /\ otx[t].pc = "create"
  /\ IF otx[t].ctx.kind # "uuid" THEN Abort(t, "createOrderPanic", 200)
     ELSE IF ~createOk \/ Now > MaxClock THEN Abort(t, "createOrderCreate", 500)
     ELSE /\ Goto(t, [otx[t] EXCEPT !.pc = "createItems", !.created = Now])
          /\ UNCHANGED rowLock

\* order_products has the primary key (order_id, product_id): a batch that
\* names one product twice violates it and the INSERT fails.
DuplicateKey(ops) == \E i, j \in 1..Len(ops) : i < j /\ ops[i].pid = ops[j].pid

\* Variant: the INSERT skips a row whose key is taken (ON CONFLICT DO NOTHING),
\* so of two items of one product only the first is stored.
createOrderCreateItemsFirstWins(t, createOk) ==
  LET ops == otx[t].ops
      first == SelectSeq(ops, LAMBDA r : r = ops[CHOOSE i \in 1..Len(ops) : ops[i].pid = r.pid
                                                   /\ \A j \in 1..(i - 1) : ops[j].pid # r.pid]) IN
  /\ otx[t].pc = "createItems"
  /\ IF ~createOk THEN Abort(t, "createOrderCreateItems", 500)
     ELSE /\ Goto(t, [otx[t] EXCEPT !.pc = "commit", !.ops = first])
          /\ UNCHANGED rowLock
\* Lines 818-826: tx.Create(&orderProducts).
createOrderCreateItems(t, createOk) ==
  /\ otx[t].pc = "createItems"
  /\ IF ~createOk \/ DuplicateKey(otx[t].ops) THEN Abort(t, "createOrderCreateItems", 500)
     ELSE /\ Goto(t, [otx[t] EXCEPT !.pc = "commit"])
          /\ UNCHANGED rowLock

\* Lines 829-845: tx.Commit(). On success the buffered writes and inserts
\* become the committed state and the locks are released; a failed COMMIT
\* leaves nothing behind (the database aborts the transaction).
createOrderCommit(t, commitOk) ==
  LET id == NextOrderID IN
  /\ otx[t].pc = "commit"
  /\ IF ~commitOk THEN Abort(t, "createOrderCommit", 500)
     ELSE /\ products' = [p \in PIDs |-> Visible(t, p)]
          /\ orders' = orders \cup {[id |-> id, user |-> otx[t].ctx.user,
                                      status |-> "pending", total |-> otx[t].total,
                                      created |-> otx[t].created]}
          /\ orderProducts' = orderProducts \cup
               {[order |-> id, pid |-> otx[t].ops[i].pid, qty |-> otx[t].ops[i].qty,
                 price |-> otx[t].ops[i].price] : i \in 1..Len(otx[t].ops)}
          /\ otx' = [otx EXCEPT ![t] = IdleTx]
          /\ rowLock' = Rollback(t)
          /\ lastEvt' = Evt("createOrderCommit", t, 201)
          /\ UNCHANGED <<cacheVars, ureq, stock0, rateVars, authVars>>

\* The holder of the row lock transaction t is waiting for, when its locking
\* read is blocked.
WaitsFor(t) ==
  IF otx[t].pc = "lock" /\ rowLock[otx[t].items[otx[t].idx].pid] \notin {NoTx, t}
  THEN rowLock[otx[t].items[otx[t].idx].pid] ELSE NoTx

\* Variant: the database does not detect the cycle; both locking reads wait.
createOrderDeadlockUndetected(t) ==
  /\ WaitsFor(t) # NoTx
  /\ WaitsFor(WaitsFor(t)) = t
  /\ UNCHANGED vars
\* Line 770 again: when two transactions wait for each other's row lock the
\* database aborts one locking read with a deadlock error; the handler takes
\* its error path (rollback, 404).
createOrderDeadlock(t) ==
  /\ WaitsFor(t) # NoTx
  /\ WaitsFor(WaitsFor(t)) = t
  /\ Abort(t, "createOrderDeadlock", 404)

\* ------------------------------------------------- product listing
\* fmt.Sscanf(s, "%d", &result) on a string given as its characters: an
\* optional sign, then the longest run of digits; an error when there is none.
Digits == <<"0", "1", "2", "3", "4", "5", "6", "7", "8", "9">>
DigitVal(c) == (CHOOSE i \in 1..10 : Digits[i] = c) - 1
IsDigit(c) == \E i \in 1..10 : Digits[i] = c

RECURSIVE ScanDigits(_, _, _)
ScanDigits(str, i, acc) ==
  IF i > Len(str) \/ ~IsDigit(str[i]) THEN [val |-> acc, next |-> i]
  ELSE ScanDigits(str, i + 1, acc * 10 + DigitVal(str[i]))

parsePositiveInt(str) ==
  LET signed == Len(str) > 0 /\ str[1] \in {"-", "+"}
      first  == IF signed THEN 2 ELSE 1
      scan   == ScanDigits(str, first, 0)
  IN  [err |-> scan.next = first,
       val |-> IF scan.next = first THEN 0
               ELSE IF signed /\ str[1] = "-" THEN 0 - scan.val ELSE scan.val]

\* A query parameter that is present and parses to a positive number replaces
\* the default.
ParamOr(str, default) ==
  IF str # <<>> /\ ~parsePositiveInt(str).err /\ parsePositiveInt(str).val > 0
  THEN parsePositiveInt(str).val ELSE default

DefaultPage     == 1
DefaultPageSize == 10

\* Lines 473-498: the effective page, page size and search string, which
\* together are the cache key products:page:%d:size:%d:search:%s.
CacheKey(q) ==
  [page   |-> ParamOr(q.page, DefaultPage),
   size   |-> IF q.pageSize # <<>> THEN ParamOr(q.pageSize, DefaultPageSize)
              ELSE ParamOr(q.limit, DefaultPageSize),
   search |-> q.search]

\* The query strings the model submits.
ListQueries ==
  { [page |-> <<>>,          pageSize |-> <<>>,         limit |-> <<>>,    search |-> ""],
    [page |-> <<"x">>,       pageSize |-> <<"-", "1">>, limit |-> <<>>,    search |-> ""],
    [page |-> <<"0">>,       pageSize |-> <<"0">>,      limit |-> <<"1", "0">>, search |-> ""],
    [page |-> <<"2">>,       pageSize |-> <<"1">>,      limit |-> <<"5">>, search |-> "a"],
    [page |-> <<"2", "x">>,  pageSize |-> <<>>,         limit |-> <<"1">>, search |-> "a"] }

CacheKeys == {CacheKey(q) : q \in ListQueries}

\* LOWER(name) LIKE LOWER('%' || search || '%') on the names of the model.
Like(name, search) ==
  \/ search = ""
  \/ <<search, name>> \in {<<"a", "ax">>, <<"x", "ax">>, <<"ax", "ax">>, <<"b", "b">>}

\* The order in which the products table is scanned (the query has no ORDER BY).
RowOrder == <<"p1", "p2">>

RECURSIVE Matching(_, _, _)
Matching(db, search, i) ==
  IF i > Len(RowOrder) THEN <<>>
  ELSE (IF Found(db[RowOrder[i]]) /\ Like(db[RowOrder[i]].name, search)
        THEN <<RowOrder[i]>> ELSE <<>>) \o Matching(db, search, i + 1)

Min(a, b) == IF a < b THEN a ELSE b

\* Lines 516-557: count, total pages, the page's rows, the response.
ListResponse(db, key) ==
  LET all    == Matching(db, key.search, 1)
      total  == Len(all)
      pages  == IF total = 0 THEN 0
                ELSE (total \div key.size) + (IF total % key.size # 0 THEN 1 ELSE 0)
      offset == (key.page - 1) * key.size
      rows   == SubSeq(all, offset + 1, Min(offset + key.size, total))
  IN  [currentPage |-> key.page, pageSize |-> Len(rows), totalPages |-> pages,
       totalProducts |-> total,
       products |-> [i \in 1..Len(rows) |->
                       [id |-> rows[i], name |-> db[rows[i]].name,
                        price |-> db[rows[i]].price, stock |-> db[rows[i]].stock]]]

NoEntry == [currentPage |-> 0, pageSize |-> 0, totalPages |-> 0, totalProducts |-> 0,
            products |-> <<>>]
IdleList == [pc |-> "idle", key |-> [page |-> 0, size |-> 0, search |-> ""], resp |-> NoEntry]
IdleUpdate == [pc |-> "idle", pid |-> "", row |-> NoRow]

EmptyCache == [k \in CacheKeys |-> NoEntry]

\* Variant: only the key of the default first page is deleted.
invalidateFirstPageOnly ==
  IF redisPresent
  THEN [redis EXCEPT ![[page |-> DefaultPage, size |-> DefaultPageSize, search |-> ""]] = NoEntry]
  ELSE redis

\* Lines 82-93: delete every key products:*; nothing when s.redis is nil.
invalidateProductCache ==
  IF redisPresent THEN EmptyCache ELSE redis

\* The number of keys the invalidation's scan finds and deletes.
Invalidated == IF redisPresent THEN Cardinality({k \in CacheKeys : redis[k] # NoEntry}) ELSE 0

\* Lines 501-512: the cached response for the key; none without Redis.
CacheGet(key) == IF redisPresent THEN redis[key] ELSE NoEntry

\* Variant: the write does not look at s.redis.
CacheSetUnguarded(key, resp) == [redis EXCEPT ![key] = resp]

\* Lines 560-567: store the response under the key when Redis is there.
CacheSet(key, resp) == IF redisPresent THEN [redis EXCEPT ![key] = resp] ELSE redis

\* Lines 500-548: cache lookup; on a hit the cached response is returned, on
\* a miss (or without Redis) the response is computed from the database.
listProductsLookup(q, dbOk) ==
  LET key == CacheKey(q) IN
  /\ lreq.pc = "idle"
  /\ IF CacheGet(key) # NoEntry
       THEN /\ lastEvt' = EvtBody("listProductsHit", key, 200, CacheGet(key))
            /\ UNCHANGED lreq
       ELSE IF ~dbOk
       THEN /\ lastEvt' = EvtBody("listProductsMiss", key, 500, <<>>)
            /\ UNCHANGED lreq
       ELSE /\ lreq' = [pc |-> "fetched", key |-> key, resp |-> ListResponse(products, key)]
            /\ lastEvt' = NoEvt
  /\ UNCHANGED <<dbVars, rowLock, otx, redisPresent, redis, ureq, stock0, rateVars, authVars>>

\* Lines 551-570: cache the response for 5 minutes when Redis is there, and
\* return it.
listProductsRespond ==
  /\ lreq.pc = "fetched"
  /\ redis' = CacheSet(lreq.key, lreq.resp)
  /\ lastEvt' = EvtBody("listProductsMiss", lreq.key, 200, lreq.resp)
  /\ lreq' = IdleList
  /\ UNCHANGED <<dbVars, rowLock, otx, redisPresent, ureq, stock0, rateVars, authVars>>

\* Line 565: the entry's time to live of 5 minutes runs out.
cacheExpire(key) ==
  /\ redis[key] # NoEntry
  /\ redis' = [redis EXCEPT ![key] = NoEntry]
  /\ lastEvt' = NoEvt
  /\ UNCHANGED <<dbVars, rowLock, otx, redisPresent, lreq, ureq, stock0, rateVars, authVars>>

\* Lines 581-594.
getProductHandler(p) ==
  /\ lastEvt' = IF Found(products[p])
                THEN EvtBody("getProductHandler", p, 200, products[p])
                ELSE EvtBody("getProductHandler", p, 404, <<>>)
  /\ UNCHANGED <<dbVars, rowLock, otx, cacheVars, ureq, stock0, rateVars, authVars>>

\* ------------------------------------------------- product handlers
\* The multipart forms the model posts to createProductHandler: the valid
\* ones, and one with each field missing or out of range.
GoodForm(n, st) == [name |-> n, description |-> "d", price |-> 1, stock |-> st, category |-> "c"]
ProductForms ==
  {GoodForm("ax", MaxStock), GoodForm("b", 0)} \cup
  { [GoodForm("b", 1) EXCEPT !.name = ""], [GoodForm("b", 1) EXCEPT !.description = ""],
    [GoodForm("b", 1) EXCEPT !.category = ""], [GoodForm("b", 1) EXCEPT !.price = 0],
    [GoodForm("b", 1) EXCEPT !.stock = -1] }

\* The create requests the model submits: each form as an authenticated admin
\* sends it, and one valid form for each other way the handler can end.
CreateRequests ==
  {[form |-> f, ctx |-> AuthMiddleware("u1"), createOk |-> TRUE] : f \in ProductForms} \cup
  {[form |-> GoodForm("b", 0), ctx |-> [kind |-> k, user |-> "u1"], createOk |-> TRUE] :
     k \in {"none", "uuid"}} \cup
  {[form |-> GoodForm("b", 0), ctx |-> AuthMiddleware("u1"), createOk |-> FALSE]}

\* Lines 278-295: required fields, price > 0, stock >= 0.
ValidForm(f) ==
  /\ f.name # "" /\ f.description # "" /\ f.category # ""
  /\ f.price > 0
  /\ f.stock >= 0

\* Lines 263-356. userID.(string) panics on a context value of another type;
\* gin's Recovery middleware answers 500.
createProductHandler(f, ctx, createOk) ==
  /\ \E p \in PIDs : products[p] = NoRow
  /\ LET p    == CHOOSE x \in PIDs : products[x] = NoRow
         code == IF ~ValidForm(f) THEN 400
                 ELSE IF ctx.kind = "none" THEN 401
                 ELSE IF ctx.kind # "string" \/ ~createOk THEN 500
                 ELSE 201
     IN /\ IF code = 201
             THEN /\ products' = [products EXCEPT ![p] =
                                   [name |-> f.name, price |-> f.price, stock |-> f.stock]]
                  /\ redis' = invalidateProductCache
             ELSE UNCHANGED <<products, redis>>
        /\ lastEvt' = EvtCount("createProductHandler", p, code,
                                IF code = 201 THEN Invalidated ELSE 0)
  /\ UNCHANGED <<orders, orderProducts, rowLock, otx, redisPresent, lreq, ureq, stock0, rateVars, authVars>>

\* Lines 375-382: the unlocked read of the product row.
updateProductRead(p) ==
  /\ ureq.pc = "idle"
  /\ IF Found(products[p])
       THEN /\ ureq' = [pc |-> "loaded", pid |-> p, row |-> products[p]]
            /\ lastEvt' = NoEvt
       ELSE /\ lastEvt' = EvtBody("updateProductHandler", p, 404, <<>>)
            /\ UNCHANGED ureq
  /\ UNCHANGED <<dbVars, rowLock, otx, cacheVars, stock0, rateVars, authVars>>

\* The JSON bodies the model sends to updateProductHandler: every field is
\* optional, so a body is a record of the fields it supplies.
Malformed == [malformed |-> TRUE]
UpdateBodies ==
  {Malformed, [description |-> "d"], [description |-> ""], [category |-> ""],
   [price |-> 0], [price |-> 1], [name |-> ""], [name |-> "b", stock |-> -1]}
  \cup {[name |-> n] : n \in Names} \cup {[stock |-> st] : st \in {0, MaxStock}}

Has(body, field) == field \in DOMAIN body

\* Lines 400-443: the first supplied field that fails its check, "" if none.
InvalidField(body) ==
  IF Has(body, "name") /\ body.name = "" THEN "name"
  ELSE IF Has(body, "description") /\ body.description = "" THEN "description"
  ELSE IF Has(body, "price") /\ body.price <= 0 THEN "price"
  ELSE IF Has(body, "stock") /\ body.stock < 0 THEN "stock"
  ELSE IF Has(body, "category") /\ body.category = "" THEN "category"
  ELSE ""

\* Lines 400-443: the row read earlier with the supplied fields overwritten.
Patched(row, body) ==
  [name  |-> IF Has(body, "name")  THEN body.name  ELSE row.name,
   price |-> IF Has(body, "price") THEN body.price ELSE row.price,
   stock |-> IF Has(body, "stock") THEN body.stock ELSE row.stock]

\* Variant: each supplied field is written to the database as soon as it has
\* passed its own check, so the fields before an invalid one are kept.
updateProductSaveFieldwise(body, saveOk) ==
  /\ ureq.pc = "loaded"
  /\ LET bad   == InvalidField(body)
         code  == IF body = Malformed \/ bad # "" THEN 400
                  ELSE IF ~saveOk THEN 500 ELSE 200
         row   == Patched(ureq.row, body)
         part  == [name  |-> row.name,
                   price |-> IF bad \in {"stock", "category"} THEN row.price ELSE ureq.row.price,
                   stock |-> IF bad = "category" THEN row.stock ELSE ureq.row.stock]
     IN /\ code = 200 => rowLock[ureq.pid] = NoTx
        /\ IF code = 200
             THEN /\ products' = [products EXCEPT ![ureq.pid] = row]
                  /\ redis' = invalidateProductCache
             ELSE IF body # Malformed /\ bad \notin {"", "name"}
             THEN /\ products' = [products EXCEPT ![ureq.pid] = part]
                  /\ UNCHANGED redis
             ELSE UNCHANGED <<products, redis>>
        /\ lastEvt' = EvtCount("updateProductHandler", ureq.pid, code,
                                IF code = 200 THEN Invalidated ELSE 0)
  /\ ureq' = IdleUpdate
  /\ UNCHANGED <<orders, orderProducts, rowLock, otx, redisPresent, lreq, stock0, rateVars, authVars>>
\* Variant: order_products has no price column of its own; the price of an
\* order line is the product's current price, so an update reprices the lines.
updateProductSaveReprices(body, saveOk) ==
  /\ ureq.pc = "loaded"
  /\ LET code == IF body = Malformed \/ InvalidField(body) # "" THEN 400
                 ELSE IF ~saveOk THEN 500 ELSE 200
         row  == Patched(ureq.row, body)
     IN /\ code = 200 => rowLock[ureq.pid] = NoTx
        /\ IF code = 200
             THEN /\ products' = [products EXCEPT ![ureq.pid] = row]
                  /\ orderProducts' = {IF r.pid = ureq.pid THEN [r EXCEPT !.price = row.price]
                                       ELSE r : r \in orderProducts}
                  /\ redis' = invalidateProductCache
             ELSE UNCHANGED <<products, orderProducts, redis>>
        /\ lastEvt' = EvtCount("updateProductHandler", ureq.pid, code,
                                IF code = 200 THEN Invalidated ELSE 0)
  /\ ureq' = IdleUpdate
  /\ UNCHANGED <<orders, rowLock, otx, redisPresent, lreq, stock0, rateVars, authVars>>
\* Lines 394-457: bind and validate the body, s.db.Save(&product) (an UPDATE
\* of every column, which waits for the row lock, and an upsert when the row
\* is no longer there), then the cache invalidation.
updateProductSave(body, saveOk) ==
  /\ ureq.pc = "loaded"
  /\ LET code == IF body = Malformed \/ InvalidField(body) # "" THEN 400
                 ELSE IF ~saveOk THEN 500 ELSE 200
     IN /\ code = 200 => rowLock[ureq.pid] = NoTx
        /\ IF code = 200
             THEN /\ products' = [products EXCEPT ![ureq.pid] = Patched(ureq.row, body)]
                  /\ redis' = invalidateProductCache
             ELSE UNCHANGED <<products, redis>>
        /\ lastEvt' = EvtCount("updateProductHandler", ureq.pid, code,
                                IF code = 200 THEN Invalidated ELSE 0)
  /\ ureq' = IdleUpdate
  /\ UNCHANGED <<orders, orderProducts, rowLock, otx, redisPresent, lreq, stock0, rateVars, authVars>>

\* Lines 607-638: find the product, delete it (the DELETE waits for the row
\* lock; order_products rows go with it, ON DELETE CASCADE), invalidate.
deleteProductHandler(p, deleteOk) ==
  LET code == IF ~Found(products[p]) THEN 404 ELSE IF ~deleteOk THEN 500 ELSE 200 IN
  /\ code # 404 => rowLock[p] = NoTx
  /\ IF code = 200
       THEN /\ products' = [products EXCEPT ![p] = Gone]
            /\ orderProducts' = {r \in orderProducts : r.pid # p}
            /\ redis' = invalidateProductCache
       ELSE UNCHANGED <<products, orderProducts, redis>>
  /\ lastEvt' = EvtCount("deleteProductHandler", p, code,
                          IF code = 200 THEN Invalidated ELSE 0)
  /\ UNCHANGED <<orders, rowLock, otx, redisPresent, lreq, ureq, stock0, rateVars, authVars>>

\* ------------------------------------------------- rate limiting
\* DefaultConfig: "1000-H", "5-M", "100-M". Time is counted in minutes.
GlobalLimit  == 1000
GlobalPeriod == 60
AuthLimit    == 5
APILimit     == 100

IPs == {"ip1", "ip2"}

\* One limiter, with a store of its own, per call of NewRateLimiter in
\* RegisterRoutes: GlobalLimiter() on the engine, AuthLimiter() on /auth, and
\* APILimiter() once on each of the three groups productPublic, productsAdmin
\* and orders.
Limiters == {"global", "auth", "productPublic", "productsAdmin", "orders"}

\* The route groups; "swagger" stands for the routes outside every group.
Routes == {"swagger", "auth", "productPublic", "productsAdmin", "orders"}

Limit(l) ==
  IF l = "global" THEN GlobalLimit ELSE IF l = "auth" THEN AuthLimit ELSE APILimit

Period(l) == IF l = "global" THEN GlobalPeriod ELSE 1

\* A store entry: the requests counted in the running window and the minutes
\* left before it expires; NoCount when the key has no live entry.
NoCount == [count |-> 0, left |-> -1]

EmptyStore == [l \in Limiters |-> [k \in IPs |-> NoCount]]

\* Variant: every client is counted under one key.
KeyShared(ip) == "ip1"

\* The limiter's key for a request: the client IP.
Key(ip) == ip

\* The store counts the request: a key without a live entry starts a window
\* of one period with count 1.
Increment(e, period) ==
  IF e.left < 0 THEN [count |-> 1, left |-> period]
  ELSE [e EXCEPT !.count = @ + 1]

\* Variant: the limit counts as reached when the count arrives at it.
ReachedAtLimit(e, limit) == e.count >= limit

\* The limit is reached when the count exceeds it.
Reached(e, limit) == e.count > limit

\* Variant: one limiter instance, made once, is put on every group, so the
\* groups count in one store.
LimiterOneStore(l, store, ip) ==
  LET s == IF l = "global" THEN l ELSE "auth"
      e == Increment(store[s][Key(ip)], Period(l)) IN
  [store |-> [store EXCEPT ![s][Key(ip)] = e], reached |-> Reached(e, Limit(l))]

\* The middleware of limiter l on a request of ip: the store after it and
\* whether it answers 429 and aborts.
Limiter(l, store, ip) ==
  LET e == Increment(store[l][Key(ip)], Period(l)) IN
  [store |-> [store EXCEPT ![l][Key(ip)] = e], reached |-> Reached(e, Limit(l))]

\* What the CORS middleware, first in the chain, makes of a request: one
\* without an Origin header or from the allowed origin is passed on ("same"),
\* one from another origin is answered 403 and a preflight (OPTIONS) 204.
Origins == {"same", "foreign", "preflight"}
cors(origin) ==
  IF origin = "foreign" THEN 403 ELSE IF origin = "preflight" THEN 204 ELSE 0

\* The middleware chain of a route after CORS: the global limiter, then the
\* group's limiter, then the rest (by: who wrote the response).
Serve(store, ip, route) ==
  LET g == Limiter("global", store, ip) IN
  IF g.reached THEN [store |-> g.store, status |-> 429, by |-> "global"]
  ELSE IF route \notin Limiters THEN [store |-> g.store, status |-> 200, by |-> "handler"]
  ELSE LET a == Limiter(route, g.store, ip) IN
       IF a.reached THEN [store |-> a.store, status |-> 429, by |-> route]
       ELSE [store |-> a.store, status |-> 200, by |-> "handler"]

\* One request through the router. The status 200 stands for whatever the
\* group's remaining middleware and handler answer.
request(ip, route, origin) ==
  /\ sent < MaxRequests
  /\ sent' = sent + 1
  /\ IF cors(origin) # 0
       THEN /\ rate' = rate
            /\ lastEvt' = EvtBody(route, ip, cors(origin), [origin |-> origin, by |-> "cors"])
       ELSE LET r == Serve(rate, ip, route) IN
            /\ rate' = r.store
            /\ lastEvt' = EvtBody(route, ip, r.status, [origin |-> origin, by |-> r.by])
  /\ UNCHANGED <<dbVars, rowLock, otx, cacheVars, ureq, stock0, authVars>>

Elapse(e, d) == IF e.left - d < 0 THEN NoCount ELSE [e EXCEPT !.left = @ - d]

\* The time, in minutes, that passes between two requests: none, one or two
\* minutes, an hour, or a minute more than an hour.
Gaps == {1, 2, GlobalPeriod, GlobalPeriod + 1}

\* d minutes pass after a response.
tick(d) ==
  /\ lastEvt # NoEvt
  /\ rate' = [l \in Limiters |-> [k \in IPs |-> Elapse(rate[l][k], d)]]
  /\ rate' # rate
  /\ lastEvt' = NoEvt
  /\ UNCHANGED <<dbVars, rowLock, otx, cacheVars, ureq, stock0, sent, authVars>>

\* ------------------------------------------------- authentication
\* Strings are sequences of atoms; " " is the one atom strings.Split cuts at.
\* strings.Split(s, sep): the pieces of s between the separators (one piece,
\* the empty one, for the empty string).
RECURSIVE Split(_, _)
Split(s, sep) ==
  IF \E i \in 1..Len(s) : s[i] = sep
    THEN LET i == CHOOSE k \in 1..Len(s) : s[k] = sep /\ \A j \in 1..(k - 1) : s[j] # sep
         IN <<SubSeq(s, 1, i - 1)>> \o Split(SubSeq(s, i + 1, Len(s)), sep)
    ELSE <<s>>

\* The claims of a token (middleware.go reads UserID, Username, Email, Role).
Claims(id, name, email, role) ==
  [userID |-> id, username |-> name, email |-> email, role |-> role]

\* The signed tokens of the model: the signing method of the header, the key
\* the signature was made with, whether exp has passed, and the claims.
\* Every other token string does not parse as a JWT.
JWTs ==
  [tokAdmin   |-> [alg |-> "HS256", key |-> "k", expired |-> FALSE,
                   claims |-> Claims("u1", "admin", "admin@tundra.com", "admin")],
   tokUser    |-> [alg |-> "HS256", key |-> "k", expired |-> FALSE,
                   claims |-> Claims("u2", "user", "user@tundra.com", "user")],
   tokExpired |-> [alg |-> "HS256", key |-> "k", expired |-> TRUE,
                   claims |-> Claims("u1", "admin", "admin@tundra.com", "admin")],
   tokForged  |-> [alg |-> "HS256", key |-> "guess", expired |-> FALSE,
                   claims |-> Claims("u1", "admin", "admin@tundra.com", "admin")],
   tokES256   |-> [alg |-> "ES256", key |-> "k", expired |-> FALSE,
                   claims |-> Claims("u1", "admin", "admin@tundra.com", "admin")]]

\* *jwt.SigningMethodHMAC
SigningMethodHMAC == {"HS256", "HS384", "HS512"}

\* The values of JWT_SECRET: unset, or the server's key.
Secrets == {"", "k"}

NoClaims == Claims("", "", "", "")
Rejected == [err |-> TRUE, claims |-> NoClaims]

\* jwt.ParseWithClaims with the key function of ValidateJWT (HMAC methods
\* only, key []byte(secret)), then token.Valid.
ParseWithClaims(secret, token) ==
  IF token.alg \notin SigningMethodHMAC THEN Rejected
  ELSE IF token.key # secret THEN Rejected
  ELSE IF token.expired THEN Rejected
  ELSE [err |-> FALSE, claims |-> token.claims]

\* ValidateJWT with JWT_SECRET = secret.
ValidateJWT(secret, tokenString) ==
  IF secret = "" THEN Rejected
  ELSE IF tokenString \notin DOMAIN JWTs THEN Rejected
  ELSE ParseWithClaims(secret, JWTs[tokenString])

\* *jwt.SigningMethodECDSA
SigningMethodECDSA == {"ES256", "ES384", "ES512"}

NoToken == [alg |-> "none", key |-> "", expired |-> FALSE, claims |-> NoClaims]

\* token.SignedString(key): an ECDSA method signs with an *ecdsa.PrivateKey
\* only and an HMAC method with a []byte only (ErrInvalidKeyType otherwise).
SignedString(method, keyType, key, claims) ==
  IF method \in SigningMethodECDSA /\ keyType # "*ecdsa.PrivateKey"
    THEN [err |-> TRUE, token |-> NoToken]
  ELSE IF method \in SigningMethodHMAC /\ keyType # "[]byte"
    THEN [err |-> TRUE, token |-> NoToken]
  ELSE [err |-> FALSE,
        token |-> [alg |-> method, key |-> key, expired |-> FALSE, claims |-> claims]]

\* GenerateJWT with JWT_SECRET = secret: claims UserID, Name, Email, signed by
\* jwt.SigningMethodES256 with []byte(secret).
GenerateJWT(secret, userID, name, email) ==
  IF secret = "" THEN [err |-> TRUE, token |-> NoToken]
  ELSE SignedString("ES256", "[]byte", secret, Claims(userID, name, email, ""))

\* The Authorization headers the model sends ("" is <<>>).
Bearer(tokenString) == <<"Bearer", " ", tokenString>>
Headers ==
  {<<>>, <<"InvalidFormat">>, <<"Bearer">>, <<"Bearer", " ">>,
   <<"bearer", " ", "tokAdmin">>, <<"Basic", " ", "tokAdmin">>,
   <<"Bearer", " ", " ", "tokAdmin">>, <<"Bearer", " ", "tokAdmin", " ">>,
   <<" ", "Bearer", " ", "tokAdmin">>, Bearer("invalid.token.here")}
  \cup {Bearer(tok) : tok \in DOMAIN JWTs}

\* A piece of a header of the model as a token string: one atom, or "".
TokenString(part) == IF Len(part) = 1 THEN part[1] ELSE ""

\* The keys AuthMiddleware has not set.
NoKeys == [set |-> FALSE, userID |-> "", username |-> "", email |-> "", role |-> ""]

\* AuthMiddleware: the status it aborts with (0 when it calls c.Next()) and
\* the context keys it leaves.
AuthMiddlewareAnyScheme(secret, authHeader) ==
  LET parts == Split(authHeader, " ") IN
  IF authHeader = <<>> THEN [status |-> 401, keys |-> NoKeys]
  ELSE IF Len(parts) # 2 THEN [status |-> 401, keys |-> NoKeys]
  ELSE LET v == ValidateJWT(secret, TokenString(parts[2])) IN
       IF v.err THEN [status |-> 401, keys |-> NoKeys]
       ELSE [status |-> 0,
             keys |-> [set |-> TRUE, userID |-> v.claims.userID,
                       username |-> v.claims.username, email |-> v.claims.email,
                       role |-> v.claims.role]]
AuthMiddlewareFunc(secret, authHeader) ==
  LET parts == Split(authHeader, " ") IN
  IF authHeader = <<>> THEN [status |-> 401, keys |-> NoKeys]
  ELSE IF Len(parts) # 2 \/ parts[1] # <<"Bearer">> THEN [status |-> 401, keys |-> NoKeys]
  ELSE LET v == ValidateJWT(secret, TokenString(parts[2])) IN
       IF v.err THEN [status |-> 401, keys |-> NoKeys]
       ELSE [status |-> 0,
             keys |-> [set |-> TRUE, userID |-> v.claims.userID,
                       username |-> v.claims.username, email |-> v.claims.email,
                       role |-> v.claims.role]]

\* AdminMiddleware: the status it aborts with, 0 when it calls c.Next().
AdminMiddlewareAnyRole(keys) ==
  IF ~keys.set THEN 401 ELSE 0
AdminMiddleware(keys) ==
  IF ~keys.set THEN 401
  ELSE IF keys.role # "admin" THEN 403
  ELSE 0

\* The route groups behind AuthMiddleware.
Guarded == {"productsAdmin", "orders"}

\* No request has reached a guarded group yet.
NoRequest ==
  [group |-> "none", secret |-> "", header |-> <<>>, status |-> 401,
   by |-> "none", keys |-> NoKeys]

\* The middleware chain of a guarded group on one request: AuthMiddleware,
\* then for productsAdmin AdminMiddleware. The gin context keeps what the
\* chain decided: status 0 means the handler is called next.
dispatch(group, secret, authHeader) ==
  LET a     == AuthMiddlewareFunc(secret, authHeader)
      admin == IF group = "productsAdmin" /\ a.status = 0
                 THEN AdminMiddleware(a.keys) ELSE 0
      st    == IF a.status # 0 THEN a.status ELSE admin
      by    == IF a.status # 0 THEN "AuthMiddleware"
               ELSE IF admin # 0 THEN "AdminMiddleware" ELSE "handler"
  IN /\ ginCtx' = [group |-> group, secret |-> secret, header |-> authHeader,
                   status |-> st, by |-> by, keys |-> a.keys]
     /\ lastEvt' = EvtBody(by, NoTx, st, <<>>)
     /\ UNCHANGED <<dbVars, rowLock, otx, cacheVars, ureq, stock0, rateVars, users, sreq>>

\* The chain of group called the handler of the request in ginCtx.
Called(group) == ginCtx.group = group /\ ginCtx.status = 0

\* c.Get("userID") in the handler.
UserID == AuthMiddleware(ginCtx.keys.userID)

\* bcrypt.GenerateFromPassword and bcrypt.CompareHashAndPassword.
Hash(password) == <<"bcrypt", password>>
CompareHashAndPassword(hash, password) == hash = Hash(password)

\* The users table. Rows of the seed program: the admin account.
UserIDs == {"u1", "u2", "u3"}
SeedUsers ==
  {[id |-> "u1", username |-> "admin", email |-> "admin@tundra.com",
    password |-> Hash("Admin123!"), role |-> "admin"]}
Slots == {"r1", "r2"}

\* The strings of the model, by what the validators of validation.go say of
\* them: "" is the empty string, "b b" is not alphanumeric, "nomail" has no
\* @, "weak" is shorter than 8 characters.
ValidateUsername(username) ==
  IF username = "" THEN "username is required"
  ELSE IF username \notin {"admin", "bob", "eve"} THEN "username must be alphanumeric"
  ELSE ""
ValidateEmail(email) ==
  IF email = "" THEN "email is required"
  ELSE IF email \notin {"admin@tundra.com", "bob@x.io", "eve@x.io"}
    THEN "email must be a valid email address format"
  ELSE ""
ValidatePassword(password) ==
  IF password \notin {"Passw0rd!", "Admin123!"}
    THEN "password must be at least 8 characters long"
  ELSE ""

\* The JSON bodies the model posts to /auth/register; a body may carry
\* fields the handler does not bind.
SignUp(u, e, p) == [username |-> u, email |-> e, password |-> p]
SignUpBodies ==
  {SignUp(u, e, "Passw0rd!") : u \in {"admin", "bob"}, e \in {"admin@tundra.com", "bob@x.io"}}
  \cup {SignUp("eve", "eve@x.io", "Passw0rd!"),
        SignUp("", "bob@x.io", "Passw0rd!"), SignUp("bob", "bob@x.io", ""),
        SignUp("b b", "admin@tundra.com", "Passw0rd!"),
        SignUp("admin", "nomail", "Passw0rd!"),
        SignUp("admin", "bob@x.io", "weak"),
        [username |-> "bob", email |-> "bob@x.io", password |-> "Passw0rd!", role |-> "admin"]}

NoBody == SignUp("", "", "")
IdleSignUp == [pc |-> "idle", body |-> NoBody, held |-> FALSE]

\* A stored user holds the username or the email of the body.
Held(body) == \E u \in users : u.username = body.username \/ u.email = body.email

\* Lines 107-136: binding (every field required), then the three validators;
\* the error of the first that fails, "" if none.
SignUpInvalid(body) ==
  IF body.username = "" \/ body.email = "" \/ body.password = "" THEN "All fields are required"
  ELSE IF ValidateUsername(body.username) # "" THEN ValidateUsername(body.username)
  ELSE IF ValidateEmail(body.email) # "" THEN ValidateEmail(body.email)
  ELSE ValidatePassword(body.password)

\* The response of signUpHandler in slot r.
SignUpResponse(r, code, body, held, error) ==
  /\ lastEvt' = EvtBody("signUpHandler", r, code,
                        [request |-> body, held |-> held, error |-> error])
  /\ sreq' = [sreq EXCEPT ![r] = IdleSignUp]

\* Lines 107-143: bind, validate, then the SELECT by username.
signUpBind(r, body) ==
  /\ sreq[r].pc = "idle"
  /\ Cardinality(users) < Cardinality(UserIDs)
  /\ IF SignUpInvalid(body) # ""
       THEN SignUpResponse(r, 400, body, Held(body), SignUpInvalid(body))
     ELSE IF \E u \in users : u.username = body.username
       THEN SignUpResponse(r, 400, body, Held(body), "Username is already taken")
     ELSE /\ sreq' = [sreq EXCEPT ![r] = [pc |-> "email", body |-> body, held |-> Held(body)]]
          /\ lastEvt' = NoEvt
  /\ UNCHANGED <<dbVars, rowLock, otx, cacheVars, ureq, stock0, rateVars, users, ginCtx>>

\* Variant: the handler does not look for the email and leaves duplicates to
\* the unique index.
signUpCheckEmailSkipped(r) ==
  /\ sreq[r].pc = "email"
  /\ sreq' = [sreq EXCEPT ![r].pc = "create"]
  /\ lastEvt' = NoEvt
  /\ UNCHANGED <<dbVars, rowLock, otx, cacheVars, ureq, stock0, rateVars, users, ginCtx>>
\* Lines 145-149: the SELECT by email.
signUpCheckEmail(r) ==
  /\ sreq[r].pc = "email"
  /\ IF \E u \in users : u.email = sreq[r].body.email
       THEN SignUpResponse(r, 400, sreq[r].body, sreq[r].held, "Email is already registered")
     ELSE /\ sreq' = [sreq EXCEPT ![r].pc = "create"]
          /\ lastEvt' = NoEvt
  /\ UNCHANGED <<dbVars, rowLock, otx, cacheVars, ureq, stock0, rateVars, users, ginCtx>>

\* The role of a row inserted without one: the struct's zero value or the
\* column default of the add_role_to_users migration.
DefaultRoles == {"", "user"}

\* The row s.db.Create(&user) inserts for the body (lines 159-163).
NewUser(body, role) ==
  [id       |-> CHOOSE id \in UserIDs : \A u \in users : u.id # id,
   username |-> body.username, email |-> body.email,
   password |-> Hash(body.password), role |-> role]

\* Variant: the users table has no unique index.
signUpCreateNoIndex(r, hashOk, createOk) ==
  /\ sreq[r].pc = "create"
  /\ IF ~hashOk
       THEN /\ SignUpResponse(r, 500, sreq[r].body, sreq[r].held, "Failed to process registration")
            /\ UNCHANGED users
     ELSE IF ~createOk
       THEN /\ SignUpResponse(r, 500, sreq[r].body, sreq[r].held, "Failed to create user account")
            /\ UNCHANGED users
     ELSE /\ \E role \in DefaultRoles : users' = users \cup {NewUser(sreq[r].body, role)}
          /\ SignUpResponse(r, 201, sreq[r].body, sreq[r].held, "")
  /\ UNCHANGED <<dbVars, rowLock, otx, cacheVars, ureq, stock0, rateVars, ginCtx>>

\* Variant: the role of the new row is taken from the body when it has one.
signUpCreateRoleFromBody(r, hashOk, createOk) ==
  /\ sreq[r].pc = "create"
  /\ IF ~hashOk
       THEN /\ SignUpResponse(r, 500, sreq[r].body, sreq[r].held, "Failed to process registration")
            /\ UNCHANGED users
     ELSE IF ~createOk \/ Held(sreq[r].body)
       THEN /\ SignUpResponse(r, 500, sreq[r].body, sreq[r].held, "Failed to create user account")
            /\ UNCHANGED users
     ELSE /\ \E role \in (IF Has(sreq[r].body, "role") THEN {sreq[r].body.role} ELSE DefaultRoles) :
               users' = users \cup {NewUser(sreq[r].body, role)}
          /\ SignUpResponse(r, 201, sreq[r].body, sreq[r].held, "")
  /\ UNCHANGED <<dbVars, rowLock, otx, cacheVars, ureq, stock0, rateVars, ginCtx>>

\* Lines 151-179: hash the password, build the row from username, email and
\* hash, s.db.Create(&user). The INSERT fails on the unique indexes of
\* username and email (user.go:7-8).
signUpCreate(r, hashOk, createOk) ==
  /\ sreq[r].pc = "create"
  /\ IF ~hashOk
       THEN /\ SignUpResponse(r, 500, sreq[r].body, sreq[r].held, "Failed to process registration")
            /\ UNCHANGED users
     ELSE IF ~createOk \/ Held(sreq[r].body)
       THEN /\ SignUpResponse(r, 500, sreq[r].body, sreq[r].held, "Failed to create user account")
            /\ UNCHANGED users
     ELSE /\ \E role \in DefaultRoles : users' = users \cup {NewUser(sreq[r].body, role)}
          /\ SignUpResponse(r, 201, sreq[r].body, sreq[r].held, "")
  /\ UNCHANGED <<dbVars, rowLock, otx, cacheVars, ureq, stock0, rateVars, ginCtx>>


\* The JSON bodies the model posts to /auth/login.
LoginBodies ==
  [email : {"admin@tundra.com", "bob@x.io", "nomail", ""},
   password : {"Admin123!", "Passw0rd!", ""}]

\* Variant: an unknown email is answered 404.
loginHandlerUserNotFound(body, secret) ==
  LET found == {u \in users : u.email = body.email}
      user  == CHOOSE u \in found : TRUE
      jwt   == IF found = {} THEN [err |-> TRUE, token |-> NoToken]
               ELSE GenerateJWT(secret, user.id, user.username, user.email)
      resp  == IF body.email = "" \/ body.password = ""
                 THEN <<400, "Email and password are required">>
               ELSE IF ValidateEmail(body.email) # "" THEN <<400, "Invalid email format">>
               ELSE IF found = {} THEN <<404, "User not found">>
               ELSE IF ~CompareHashAndPassword(user.password, body.password)
                 THEN <<401, "Invalid credentials">>
               ELSE IF jwt.err THEN <<500, "Failed to generate authentication token">>
               ELSE <<200, "">>
  IN /\ lastEvt' = EvtBody("loginHandler", NoTx, resp[1],
                           [request |-> body, secret |-> secret, error |-> resp[2],
                            token |-> IF resp[1] = 200 THEN jwt.token ELSE NoToken])
     /\ UNCHANGED <<dbVars, rowLock, otx, cacheVars, ureq, stock0, rateVars, authVars>>
\* loginHandler, lines 192-243.
loginHandler(body, secret) ==
  LET found == {u \in users : u.email = body.email}
      user  == CHOOSE u \in found : TRUE
      jwt   == IF found = {} THEN [err |-> TRUE, token |-> NoToken]
               ELSE GenerateJWT(secret, user.id, user.username, user.email)
      resp  == IF body.email = "" \/ body.password = ""
                 THEN <<400, "Email and password are required">>
               ELSE IF ValidateEmail(body.email) # "" THEN <<400, "Invalid email format">>
               ELSE IF found = {} THEN <<401, "Invalid credentials">>
               ELSE IF ~CompareHashAndPassword(user.password, body.password)
                 THEN <<401, "Invalid credentials">>
               ELSE IF jwt.err THEN <<500, "Failed to generate authentication token">>
               ELSE <<200, "">>
  IN /\ lastEvt' = EvtBody("loginHandler", NoTx, resp[1],
                           [request |-> body, secret |-> secret, error |-> resp[2],
                            token |-> IF resp[1] = 200 THEN jwt.token ELSE NoToken])
     /\ UNCHANGED <<dbVars, rowLock, otx, cacheVars, ureq, stock0, rateVars, authVars>>


\* ------------------------------------------------- guarded handlers
\* uploadProductImageHandler, lines 655-694: find the product, check the
\* image service, read the uploaded file.
uploadProductImageRead(p, cloudinary, formFile) ==
  /\ ureq.pc = "idle"
  /\ LET code == IF ~Found(products[p]) THEN 404
                 ELSE IF ~cloudinary THEN 500
                 ELSE IF ~formFile THEN 400 ELSE 0
     IN /\ lastEvt' = EvtBody("uploadProductImageHandler", p, code, <<>>)
        /\ ureq' = IF code = 0 THEN [pc |-> "uploading", pid |-> p, row |-> products[p]]
                   ELSE ureq
  /\ UNCHANGED <<dbVars, rowLock, otx, cacheVars, stock0, rateVars, authVars>>

\* Lines 690-709: upload, then s.db.Save(&product) writes every column of the
\* row read earlier (only image_url differs, which the rows of the model do
\* not carry), then the cache invalidation.
uploadProductImageSave(uploadOk, saveOk) ==
  /\ ureq.pc = "uploading"
  /\ LET code == IF ~uploadOk THEN 400 ELSE IF ~saveOk THEN 500 ELSE 200
     IN /\ code = 200 => rowLock[ureq.pid] = NoTx
        /\ IF code = 200
             THEN /\ products' = [products EXCEPT ![ureq.pid] = ureq.row]
                  /\ redis' = invalidateProductCache
             ELSE UNCHANGED <<products, redis>>
        /\ lastEvt' = EvtCount("uploadProductImageHandler", ureq.pid, code,
                                IF code = 200 THEN Invalidated ELSE 0)
  /\ ureq' = IdleUpdate
  /\ UNCHANGED <<orders, orderProducts, rowLock, otx, redisPresent, lreq, stock0, rateVars, authVars>>

\* ORDER BY created_at DESC of a set of order rows.
RECURSIVE NewestFirst(_)
NewestFirst(rows) ==
  IF rows = {} THEN <<>>
  ELSE LET o == CHOOSE x \in rows : \A y \in rows : y.created <= x.created
       IN <<o>> \o NewestFirst(rows \ {o})

\* The query strings the model adds to GET /orders.
OrderQueries == {"", "user_id=u1", "user_id=u2"}

\* Variant: the user is taken from the query string when it names one.
getOrdersHandlerByQuery(ctx, query, findOk) ==
  LET user == IF query = "user_id=u1" THEN "u1"
              ELSE IF query = "user_id=u2" THEN "u2" ELSE ctx.user
      code == IF ctx.kind = "none" THEN 401 ELSE IF ~findOk THEN 500 ELSE 200
      rows == IF code = 200 THEN NewestFirst({o \in orders : o.user = user}) ELSE <<>>
  IN /\ lastEvt' = EvtBody("getOrdersHandler", ctx.user, code,
                           [query |-> query, orders |-> rows])
     /\ UNCHANGED <<dbVars, rowLock, otx, cacheVars, ureq, stock0, rateVars, authVars>>
\* getOrdersHandler, lines 856-873. The handler reads nothing of the request
\* but the context key userID.
getOrdersHandler(ctx, query, findOk) ==
  LET code == IF ctx.kind = "none" THEN 401 ELSE IF ~findOk THEN 500 ELSE 200
      rows == IF code = 200 THEN NewestFirst({o \in orders : o.user = ctx.user}) ELSE <<>>
  IN /\ lastEvt' = EvtBody("getOrdersHandler", ctx.user, code,
                           [query |-> query, orders |-> rows])
     /\ UNCHANGED <<dbVars, rowLock, otx, cacheVars, ureq, stock0, rateVars, authVars>>

\* ---------------------------------------------------- specifications
InitDB ==
  /\ products \in {f \in [PIDs -> ProductRows \cup {NoRow}] :
                     /\ f["p1"] \in SeedRows("p1") /\ f["p1"].stock = MaxStock
                     /\ f["p2"] = NoRow \/ (f["p2"] \in SeedRows("p2") /\ f["p2"].stock = MaxStock)}
  /\ stock0 = products
  /\ rowLock = [p \in PIDs |-> NoTx]
  /\ orders = {}
  /\ orderProducts = {}
  /\ otx = [t \in Txs |-> IdleTx]
  /\ redis = EmptyCache
  /\ lreq = IdleList
  /\ ureq = IdleUpdate
  /\ rate = EmptyStore
  /\ sent = 0
  /\ users = SeedUsers
  /\ sreq = [r \in Slots |-> IdleSignUp]
  /\ ginCtx = NoRequest
  /\ lastEvt = NoEvt

\* The requests the model submits: every well-formed request, and for each way
\* a request is refused before its transaction starts one representative.
OrderRequests ==
  {r \in [ctx : Contexts, items : OrderBodies, beginOk : BOOLEAN] :
     \/ r.ctx.kind # "none" /\ Len(r.items) > 0 /\ ValidBody(r.items) /\ r.beginOk
     \/ r.ctx.kind = "string" /\ r.beginOk /\ Len(r.items) = 0
     \/ r.ctx.kind = "string" /\ r.beginOk /\ Len(r.items) = 1 /\ ~ValidBody(r.items)
     \/ r.ctx.kind = "none" /\ r.beginOk /\ Len(r.items) = 0
     \/ r.ctx.kind = "string" /\ ~r.beginOk /\ Len(r.items) = 1 /\ ValidBody(r.items)}

createOrderHandler(t, requests) ==
  \/ \E r \in requests : createOrderBegin(t, r.ctx, r.items, r.beginOk)
  \/ createOrderLock(t)
  \/ createOrderCheck(t)
  \/ \E ok \in BOOLEAN : createOrderSave(t, ok)
  \/ \E ok \in BOOLEAN : createOrderCreate(t, ok)
  \/ \E ok \in BOOLEAN : createOrderCreateItems(t, ok)
  \/ \E ok \in BOOLEAN : createOrderCommit(t, ok)

\* Concurrent orders on a fixed catalogue.
InitOrders == InitDB /\ redisPresent = TRUE
NextOrders ==
  \/ \E t \in Txs : createOrderHandler(t, OrderRequests)
  \/ \E t \in Txs : createOrderDeadlock(t)
SpecOrders == InitOrders /\ [][NextOrders]_vars

\* One order at a time (so no lock wait and no deadlock) next to catalogue
\* reads through the listing cache.
SingleItemRequests ==
  {r \in OrderRequests : Len(r.items) = 1 /\ r.beginOk /\ r.ctx.kind # "none"}

listProductsHandler ==
  \/ \E q \in ListQueries : listProductsLookup(q, TRUE)
  \/ listProductsLookup(CHOOSE q \in ListQueries : TRUE, FALSE)
  \/ listProductsRespond

InitBrowse == InitDB /\ redisPresent \in BOOLEAN
NextBrowse ==
  \/ createOrderHandler("t1", SingleItemRequests)
  \/ listProductsHandler
  \/ \E k \in CacheKeys : cacheExpire(k)
  \/ \E p \in PIDs : getProductHandler(p)
SpecBrowse == InitBrowse /\ [][NextBrowse]_vars

\* The catalogue handlers and the listing cache.
updateProductHandler ==
  \/ \E p \in PIDs : updateProductRead(p)
  \/ \E body \in UpdateBodies : updateProductSave(body, TRUE)
  \/ updateProductSave([price |-> 1], FALSE)

InitCatalog == InitDB /\ redisPresent \in BOOLEAN
NextCatalog ==
  \/ listProductsHandler
  \/ \E k \in CacheKeys : cacheExpire(k)
  \/ \E r \in CreateRequests : createProductHandler(r.form, r.ctx, r.createOk)
  \/ updateProductHandler
  \/ \E p \in PIDs : deleteProductHandler(p, TRUE)
  \/ deleteProductHandler("p1", FALSE)
SpecCatalog == InitCatalog /\ [][NextCatalog]_vars

\* The router in front of the handlers: CORS and the rate limiters.
\* The stores after k requests of ip1 to route in one instant, all admitted
\* (k within the limits): the global limiter and the route's limiter each
\* hold a fresh window with count k.
Burst(route, k) ==
  [l \in Limiters |-> [ip \in IPs |->
     IF ip = "ip1" /\ k > 0 /\ l \in {"global", route}
     THEN [count |-> k, left |-> Period(l)] ELSE NoCount]]

\* The runs start after a burst of ip1 that leaves one request of a quota.
Bursts ==
  {<<"swagger", 0>>, <<"swagger", GlobalLimit - 1>>, <<"auth", AuthLimit - 1>>,
   <<"productPublic", APILimit - 1>>, <<"productsAdmin", APILimit - 1>>,
   <<"orders", APILimit - 1>>}

InitRate ==
  /\ products = [p \in PIDs |-> NoRow]
  /\ stock0 = products
  /\ rowLock = [p \in PIDs |-> NoTx]
  /\ orders = {}
  /\ orderProducts = {}
  /\ otx = [t \in Txs |-> IdleTx]
  /\ redisPresent = TRUE
  /\ redis = EmptyCache
  /\ lreq = IdleList
  /\ ureq = IdleUpdate
  /\ rate \in {Burst(b[1], b[2]) : b \in Bursts}
  /\ sent = 0
  /\ users = SeedUsers
  /\ sreq = [r \in Slots |-> IdleSignUp]
  /\ ginCtx = NoRequest
  /\ lastEvt = NoEvt
NextRate ==
  \/ \E ip \in IPs, route \in Routes, origin \in Origins : request(ip, route, origin)
  \/ \E d \in Gaps : tick(d)
SpecRate == InitRate /\ [][NextRate]_vars


\* The guarded route groups: the middleware chain, then the handlers of the
\* group for the request the chain let through.
InitGuard == InitDB /\ redisPresent = TRUE /\ products["p2"] = NoRow
GuardForms == {GoodForm("b", 0), [GoodForm("b", 1) EXCEPT !.stock = -1]}
GuardBodies == {[stock |-> 0], [name |-> "b", stock |-> -1]}
GuardItems == {<<[pid |-> "p1", qty |-> 1]>>, <<[pid |-> "p1", qty |-> 0]>>}
NextGuard ==
  \/ \E g \in Guarded, h \in Headers : dispatch(g, "k", h)
  \/ dispatch("productsAdmin", "", Bearer("tokAdmin"))
  \/ Called("productsAdmin") /\ \E f \in GuardForms : createProductHandler(f, UserID, TRUE)
  \/ Called("productsAdmin") /\ \E p \in PIDs : updateProductRead(p)
  \/ Called("productsAdmin") /\ \E p \in PIDs : deleteProductHandler(p, TRUE)
  \/ Called("productsAdmin") /\ \E p \in PIDs, c \in BOOLEAN : uploadProductImageRead(p, c, TRUE)
  \/ Called("productsAdmin") /\ uploadProductImageRead("p1", TRUE, FALSE)
  \/ Called("orders") /\ \E i \in GuardItems : createOrderBegin("t1", UserID, i, TRUE)
  \/ Called("orders") /\ \E q \in OrderQueries : getOrdersHandler(UserID, q, TRUE)
  \/ \E body \in GuardBodies : updateProductSave(body, TRUE)
  \/ \E ok \in BOOLEAN : uploadProductImageSave(TRUE, ok)
  \/ uploadProductImageSave(FALSE, TRUE)
  \/ createOrderLock("t1")
  \/ createOrderCheck("t1")
  \/ createOrderSave("t1", TRUE)
  \/ createOrderCreate("t1", TRUE)
SpecGuard == InitGuard /\ [][NextGuard]_vars


\* Orders of two accounts and their order lists. The context values are the
\* ones createOrderHandler completes with (a uuid.UUID under "userID").
Accounts == {"u1", "u2"}
AccountRequests ==
  {[ctx |-> [kind |-> "uuid", user |-> u[1]], items |-> <<[pid |-> u[2], qty |-> 1]>>,
    beginOk |-> TRUE] : u \in Accounts \X PIDs}
AccountContexts ==
  {[kind |-> "uuid", user |-> u] : u \in Accounts} \cup
  {AuthMiddleware(u) : u \in Accounts} \cup {[kind |-> "none", user |-> "u1"]}
InitAccount == InitDB /\ redisPresent = TRUE
NextAccount ==
  \/ \E t \in Txs : createOrderHandler(t, AccountRequests)
  \/ \E c \in AccountContexts, q \in OrderQueries : getOrdersHandler(c, q, TRUE)
  \/ getOrdersHandler(AuthMiddleware("u1"), "", FALSE)
SpecAccount == InitAccount /\ [][NextAccount]_vars

\* Registration and login.
InitUsers == InitDB /\ redisPresent = TRUE /\ products["p2"] = NoRow
NextUsers ==
  \/ \E r \in Slots, body \in SignUpBodies : signUpBind(r, body)
  \/ \E r \in Slots : signUpCheckEmail(r)
  \/ \E r \in Slots : signUpCreate(r, TRUE, TRUE)
  \/ signUpCreate("r1", FALSE, TRUE)
  \/ signUpCreate("r1", TRUE, FALSE)
  \/ \E body \in LoginBodies, secret \in Secrets : loginHandler(body, secret)
SpecUsers == InitUsers /\ [][NextUsers]_vars


\* Product creation, product updates and concurrent orders on one catalogue.
ShopRequests ==
  {[ctx |-> [kind |-> "uuid", user |-> "u1"], items |-> i, beginOk |-> TRUE] :
     i \in {<<[pid |-> "p1", qty |-> 1]>>, <<[pid |-> "p1", qty |-> MaxStock]>>,
            <<[pid |-> "p2", qty |-> 1]>>,
            <<[pid |-> "p1", qty |-> 1], [pid |-> "p1", qty |-> MaxStock]>>}}
ShopForms == {GoodForm("b", 1), [GoodForm("b", 1) EXCEPT !.stock = -1]}
ShopBodies == {[stock |-> 0], [stock |-> 1], [stock |-> -1], [name |-> "b", stock |-> -1]}
InitShop == InitDB /\ redisPresent = TRUE /\ products["p2"] = NoRow
NextShop ==
  \/ \E t \in Txs : createOrderHandler(t, ShopRequests)
  \/ \E f \in ShopForms : createProductHandler(f, AuthMiddleware("u1"), TRUE)
  \/ \E p \in PIDs : updateProductRead(p)
  \/ \E body \in ShopBodies : updateProductSave(body, TRUE)
SpecShop == InitShop /\ [][NextShop]_vars


\* Concurrent orders of the same two products, listed in either order, under
\* fair scheduling: a handler that can take its next step takes it (the Go
\* scheduler runs every goroutine, the database answers every statement), a
\* locking read that can be granted again and again is granted (row locks are
\* queued), and a cycle of waiting transactions is detected.
FairRequests ==
  {[ctx |-> [kind |-> k, user |-> "u1"], items |-> i, beginOk |-> TRUE] :
     k \in {"uuid", "string"},
     i \in {<<[pid |-> "p1", qty |-> 1], [pid |-> "p2", qty |-> 1]>>,
            <<[pid |-> "p2", qty |-> 1], [pid |-> "p1", qty |-> 1]>>}}
createOrderProceed(t) ==
  \/ createOrderCheck(t)
  \/ \E ok \in BOOLEAN : createOrderSave(t, ok)
  \/ \E ok \in BOOLEAN : createOrderCreate(t, ok)
  \/ \E ok \in BOOLEAN : createOrderCreateItems(t, ok)
  \/ \E ok \in BOOLEAN : createOrderCommit(t, ok)
InitOrdersFair == InitDB /\ redisPresent = TRUE /\ products["p2"] # NoRow
NextOrdersFair ==
  \/ \E t \in Txs, r \in FairRequests : createOrderBegin(t, r.ctx, r.items, r.beginOk)
  \/ \E t \in Txs : createOrderLock(t)
  \/ \E t \in Txs : createOrderProceed(t)
  \/ \E t \in Txs : createOrderDeadlock(t)
SpecOrdersFair ==
  /\ InitOrdersFair /\ [][NextOrdersFair]_vars
  /\ \A t \in Txs : WF_vars(createOrderProceed(t))
  /\ \A t \in Txs : SF_vars(createOrderLock(t))
  /\ \A t \in Txs : WF_vars(createOrderDeadlock(t))


\* Product updates that supply no stock next to orders of one slot.
EditBodies == {[name |-> "b"], [price |-> 1], [description |-> "d"]}
EditRequests ==
  {[ctx |-> [kind |-> "uuid", user |-> "u1"], items |-> <<[pid |-> "p1", qty |-> 1]>>,
    beginOk |-> TRUE]}
InitEdit == InitDB /\ redisPresent = TRUE /\ products["p2"] = NoRow
NextEdit ==
  \/ createOrderHandler("t1", EditRequests)
  \/ \E p \in PIDs : updateProductRead(p)
  \/ \E body \in EditBodies : updateProductSave(body, TRUE)
SpecEdit == InitEdit /\ [][NextEdit]_vars


\* Price changes next to orders: the catalogue starts at price 1, an update
\* sets the price to 2 or back to 1.
PriceBodies == {[price |-> 1], [price |-> 2]}
PriceRequests ==
  {[ctx |-> [kind |-> "uuid", user |-> "u1"], items |-> i, beginOk |-> TRUE] :
     i \in {<<[pid |-> "p1", qty |-> 2]>>,
            <<[pid |-> "p1", qty |-> 1], [pid |-> "p2", qty |-> 2]>>}}
InitPrice == InitDB /\ redisPresent = TRUE /\ products["p2"] # NoRow
NextPrice ==
  \/ \E t \in Txs : createOrderHandler(t, PriceRequests)
  \/ \E p \in PIDs : updateProductRead(p)
  \/ \E body \in PriceBodies : updateProductSave(body, TRUE)
SpecPrice == InitPrice /\ [][NextPrice]_vars

\* Updates of several fields at once: every body with an invalid field
\* supplies a valid field, different from the stored one, before it.
PatchBodies ==
  {[name |-> "b", stock |-> -1], [name |-> "b", price |-> 0], [price |-> 2, stock |-> -1],
   [name |-> "b", category |-> ""], [name |-> "b"], [price |-> 2]}
PatchQuery == [page |-> <<>>, pageSize |-> <<>>, limit |-> <<>>, search |-> ""]
InitPatch == InitDB /\ redisPresent = TRUE
NextPatch ==
  \/ \E p \in PIDs : updateProductRead(p)
  \/ \E body \in PatchBodies, saveOk \in BOOLEAN : updateProductSave(body, saveOk)
  \/ listProductsLookup(PatchQuery, TRUE)
  \/ listProductsRespond
SpecPatch == InitPatch /\ [][NextPatch]_vars

\* Listing requests without Redis, one query string per search term, next to
\* product creation and deletion: parameters missing, numeric, zero, negative,
\* not numeric, and numeric with trailing characters.
PagingQueries ==
  { [page |-> <<>>,         pageSize |-> <<"1">>,      limit |-> <<>>,         search |-> ""],
    [page |-> <<"2">>,      pageSize |-> <<"1">>,      limit |-> <<"5">>,      search |-> "a"],
    [page |-> <<"0">>,      pageSize |-> <<"-", "1">>, limit |-> <<"1", "0">>, search |-> "x"],
    [page |-> <<"x">>,      pageSize |-> <<>>,         limit |-> <<"2">>,      search |-> "ax"],
    [page |-> <<"2", "x">>, pageSize |-> <<>>,         limit |-> <<>>,         search |-> "b"] }
InitPaging == InitDB /\ redisPresent = FALSE
NextPaging ==
  \/ \E q \in PagingQueries : listProductsLookup(q, TRUE)
  \/ listProductsRespond
  \/ createProductHandler(GoodForm("b", 0), AuthMiddleware("u1"), TRUE)
  \/ \E p \in PIDs : deleteProductHandler(p, TRUE)
SpecPaging == InitPaging /\ [][NextPaging]_vars

\* ====================================================== properties
RECURSIVE SumQty(_)
SumQty(rows) ==
  IF rows = {} THEN 0
  ELSE LET r == CHOOSE x \in rows : TRUE IN r.qty + SumQty(rows \ {r})

\* The units of product p deducted by committed orders.
Deducted(p) == SumQty({r \in orderProducts : r.pid = p})

\* C1: for concurrent createOrder requests on a product, the quantities
\* deducted by the orders that commit never add up to more than the stock the
\* product had before the first deduction, and its stock is never negative.
C1_NoOversell ==
  \A p \in PIDs : Found(products[p]) =>
     /\ products[p].stock >= 0
     /\ Deducted(p) <= stock0[p].stock

\* Two committed orders have used up a product's stock while a further order
\* on that product is in flight.
C1_Witness ==
  \E p \in PIDs :
     /\ Found(products[p]) /\ products[p].stock = 0
     /\ Cardinality({r \in orderProducts : r.pid = p}) >= 2
     /\ Deducted(p) = stock0[p].stock
     /\ \E t \in Txs : otx[t].pc = "check" /\ otx[t].items[otx[t].idx].pid = p

InFlight(t) == otx[t].pc # "idle"

\* The step is the one in which the handler of slot t returns with a failure.
EndsInFailure(t) ==
  /\ InFlight(t) /\ ~InFlight(t)'
  /\ lastEvt'.who = t /\ lastEvt'.status \in {400, 404, 500}

\* C2: a createOrder request that fails at an item (insufficient stock,
\* unknown product, write error) or at a later write persists nothing: the
\* step in which it fails leaves products, orders and order_products as they
\* were, drops the stock writes pending for earlier items and frees the rows.
C2_FailurePersistsNothing ==
  [][\A t \in Txs : EndsInFailure(t) =>
        /\ UNCHANGED <<products, orders, orderProducts>>
        /\ \A p \in PIDs : otx'[t].writes[p] = NoRow /\ rowLock'[p] # t]_vars

\* An order failed the stock check of its second item while the stock write of
\* its first item was pending, and the tables are as they were initially.
C2_Witness ==
  /\ lastEvt.op = "createOrderCheck" /\ lastEvt.status = 400 /\ lastEvt.n = 1
  /\ products = stock0 /\ orders = {} /\ orderProducts = {}

\* Transaction t has read, checked or written the row of p and is still open.
Touching(t, p) ==
  \/ otx[t].pc \in {"check", "save"} /\ otx[t].items[otx[t].idx].pid = p
  \/ otx[t].writes[p] # NoRow

\* C3: from its locking read of a product row to its commit or rollback an
\* order transaction holds the row's lock, so no two order transactions are
\* between read and commit on the same row.
C3_RowLockSerializes ==
  \A p \in PIDs :
     /\ \A t \in Txs : Touching(t, p) => rowLock[p] = t
     /\ Cardinality({t \in Txs : Touching(t, p)}) <= 1

\* One transaction has written a row's stock and not yet committed while
\* another waits for that row's lock.
C3_Witness ==
  \E t, u \in Txs, p \in PIDs :
     /\ t # u /\ otx[t].writes[p] # NoRow /\ rowLock[p] = t
     /\ WaitsFor(u) = t /\ otx[u].items[otx[u].idx].pid = p

\* C4: a request authenticated by AuthMiddleware whose items all passed the
\* existence and stock checks (it reached the insert of the order row) ends,
\* unless a database write fails, with 201 and a commit that adds one pending
\* order of that user, one order_products row per item and the reduced stock.
C4_AuthenticatedOrderCommits ==
  [][\A t \in Txs :
        ( /\ otx[t].pc \in {"create", "createItems", "commit"}
          /\ otx[t].ctx = AuthMiddleware(otx[t].ctx.user)
          /\ ~InFlight(t)' )
        => \/ lastEvt'.status = 500
           \/ /\ lastEvt'.status = 201
              /\ \E o \in orders' \ orders :
                   /\ orders' = orders \cup {o}
                   /\ o.user = otx[t].ctx.user /\ o.status = "pending"
                   /\ Cardinality({r \in orderProducts' : r.order = o.id}) = Len(otx[t].items)
              /\ \A p \in PIDs : otx[t].writes[p] # NoRow => products'[p] = otx[t].writes[p]
    ]_vars

MutationOps == {"createProductHandler", "updateProductHandler", "deleteProductHandler"}

C7_NilRedisIsAlwaysMiss ==
  [][~redisPresent =>
       /\ redis' = EmptyCache
       /\ lastEvt'.op # "listProductsHit"
       /\ (lreq.pc = "idle" /\ lreq'.pc = "fetched")
             => lreq'.resp = ListResponse(products, lreq'.key)
       /\ (lreq.pc = "fetched" /\ lreq'.pc = "idle")
             => lastEvt'.status = 200 /\ lastEvt'.body = lreq.resp
       /\ lastEvt'.op \in MutationOps => lastEvt'.n = 0
    ]_vars

\* Without Redis a product was deleted successfully after a listing that shows
\* it had been computed from the database.
C7_Witness ==
  /\ ~redisPresent
  /\ lastEvt.op = "deleteProductHandler" /\ lastEvt.status = 200
  /\ lreq.pc = "fetched" /\ lreq.resp.totalProducts > 0

\* The requests the live window of limiter l has counted for ip.
Counted(l, ip) == rate[l][ip].count

\* C8: a limiter with rate N per period admits a request of an IP exactly when
\* it has counted fewer than N requests of that IP in the running period (none
\* once the period has elapsed), and otherwise answers 429 itself, the handler
\* not running: for a request that passes CORS, the global limiter answers 429
\* iff it has counted 1000, and the group's limiter, reached only then,
\* answers 429 iff it has counted its limit (5 for auth); an elapsed period
\* leaves no count.
C8_LimiterAdmitsFirstN ==
  [][/\ (sent' = sent + 1 /\ lastEvt'.body.by # "cors") =>
          LET ip == lastEvt'.who
              route == lastEvt'.op IN
          /\ (Counted("global", ip) >= GlobalLimit) <=> (lastEvt'.body.by = "global")
          /\ (route \in Limiters /\ lastEvt'.body.by # "global") =>
                (Counted(route, ip) >= Limit(route)) <=> (lastEvt'.body.by = route)
          /\ (lastEvt'.status = 429) <=> (lastEvt'.body.by # "handler")
          /\ (route = "auth" /\ lastEvt'.body.by = "handler") => rate'["auth"][ip].count <= AuthLimit
     /\ \A l \in Limiters, ip \in IPs :
          rate'[l][ip].left < 0 => rate'[l][ip].count = 0
    ]_vars

\* The auth limiter blocked the sixth request of a minute, and an earlier
\* request of this run was admitted.
C8_Witness ==
  \E ip \in IPs :
    /\ lastEvt.op = "auth" /\ lastEvt.who = ip /\ lastEvt.status = 429
    /\ lastEvt.body.by = "auth"
    /\ rate["auth"][ip].count = AuthLimit + 1
    /\ sent >= 2

\* C9: a request of one IP leaves the counters of every other IP unchanged in
\* every limiter, and is admitted whenever the limiters on its route have
\* counted less than their limit for that IP, whatever they counted for others.
C9_PerIPCounters ==
  [][sent' = sent + 1 =>
       LET ip == lastEvt'.who
           route == lastEvt'.op IN
       /\ \A l \in Limiters, other \in IPs \ {ip} : rate'[l][other] = rate[l][other]
       /\ (/\ lastEvt'.body.by # "cors"
           /\ Counted("global", ip) < GlobalLimit
           /\ route \in Limiters => Counted(route, ip) < Limit(route))
          => lastEvt'.body.by = "handler"
    ]_vars

\* ip2 is admitted to /auth while ip1 has exhausted its auth quota.
C9_Witness ==
  /\ lastEvt.op = "auth" /\ lastEvt.who = "ip2" /\ lastEvt.body.by = "handler"
  /\ rate["auth"]["ip1"].count > AuthLimit
  /\ rate["auth"]["ip2"].count = 1

\* C10 as stated: a request to a route group leaves the quota of every other
\* group untouched, and every request to any route counts against the global
\* quota of its IP.
C10_EveryRequestCountsGlobally ==
  [][sent' = sent + 1 =>
       LET ip == lastEvt'.who
           route == lastEvt'.op IN
       /\ \A l \in Limiters \ {"global", route} : rate'[l] = rate[l]
       /\ rate'["global"][ip].count = Counted("global", ip) + 1
    ]_vars

\* C10: a request to a route group leaves the quota of every other group
\* untouched; a request that the CORS middleware passes on counts once against
\* the global quota of its IP, and one that CORS answers itself (403 for a
\* foreign origin, 204 for a preflight) counts against no quota.
C10_TiersIndependent ==
  [][sent' = sent + 1 =>
       LET ip == lastEvt'.who
           route == lastEvt'.op IN
       /\ \A l \in Limiters \ {"global", route} : rate'[l] = rate[l]
       /\ lastEvt'.body.by # "cors" => rate'["global"][ip].count = Counted("global", ip) + 1
       /\ lastEvt'.body.by = "cors" => rate' = rate
    ]_vars

\* ip1 is admitted to /products after exhausting its auth quota, and the
\* global limiter has counted all its requests.
C10_Witness ==
  /\ lastEvt.op = "productPublic" /\ lastEvt.who = "ip1" /\ lastEvt.body.by = "handler"
  /\ rate["auth"]["ip1"].count > AuthLimit
  /\ rate["productPublic"]["ip1"].count = 1
  /\ rate["global"]["ip1"].count = rate["auth"]["ip1"].count + 1

\* The requests of ip that limiter l has passed on in its running window.
Admitted(l, ip) ==
  IF rate[l][ip].left >= 0 THEN Min(rate[l][ip].count, Limit(l)) ELSE 0

\* C11: for one IP, the requests that the limiters of the /products routes
\* (public and admin together) pass on within one running period never number
\* more than the API limit of 100.
C11_ProductsShareOneQuota ==
  \A ip \in IPs :
    Admitted("productPublic", ip) + Admitted("productsAdmin", ip) <= APILimit

\* The header is exactly "Bearer <token>" and ValidateJWT accepts the token.
BearerAccepted(secret, header) ==
  \E tok \in DOMAIN JWTs : header = Bearer(tok) /\ ~ValidateJWT(secret, tok).err

\* The step enters a handler of a guarded group.
HandlerEntered ==
  \/ ureq.pc = "idle" /\ ureq'.pc # "idle"
  \/ ureq.pc = "idle" /\ lastEvt'.op \in {"updateProductHandler", "uploadProductImageHandler"}
  \/ \E t \in Txs : otx[t].pc = "idle" /\ otx'[t].pc # "idle"
  \/ lastEvt'.op \in {"createProductHandler", "deleteProductHandler",
                      "getOrdersHandler", "createOrderBegin"}

\* What the chain left in the context for the request it saw last.
AuthOutcome ==
  ginCtx.group # "none" =>
    IF BearerAccepted(ginCtx.secret, ginCtx.header)
      THEN /\ ginCtx.by # "AuthMiddleware"
           /\ ginCtx.keys.set
           /\ \E tok \in DOMAIN JWTs :
                /\ ginCtx.header = Bearer(tok)
                /\ ginCtx.keys.userID = JWTs[tok].claims.userID
                /\ ginCtx.keys.username = JWTs[tok].claims.username
                /\ ginCtx.keys.email = JWTs[tok].claims.email
                /\ ginCtx.keys.role = JWTs[tok].claims.role
      ELSE /\ ginCtx.status = 401 /\ ginCtx.by = "AuthMiddleware"
           /\ ~ginCtx.keys.set

\* C12: a handler behind AuthMiddleware is entered only for a request whose
\* Authorization header is exactly "Bearer <token>" with a token ValidateJWT
\* accepts; for a missing or malformed header or a token that is invalid or
\* expired the chain answers 401, calls no handler and changes nothing in the
\* database; for an accepted token the context keys userID, username, email
\* and role are the claims of the token.
C12_BearerTokenGuardsHandlers ==
  [][/\ AuthOutcome'
     /\ HandlerEntered => BearerAccepted(ginCtx.secret, ginCtx.header)
     /\ lastEvt'.op = "AuthMiddleware" =>
          /\ lastEvt'.status = 401
          /\ ~BearerAccepted(ginCtx'.secret, ginCtx'.header)
          /\ UNCHANGED <<dbVars, users, rowLock, otx, ureq>>]_vars

\* An order request of the user of tokUser went through the chain and its
\* handler is running with the user ID of the token.
C12_Witness ==
  /\ ginCtx.header = Bearer("tokUser") /\ ginCtx.group = "orders"
  /\ otx["t1"].pc = "check" /\ otx["t1"].ctx = AuthMiddleware("u2")

\* The role claim of the accepted token of the header is "admin".
AdminToken(secret, header) ==
  \E tok \in DOMAIN JWTs :
    /\ header = Bearer(tok) /\ ~ValidateJWT(secret, tok).err
    /\ JWTs[tok].claims.role = "admin"

\* The step enters a handler of the admin product routes.
AdminHandlerEntered ==
  \/ ureq.pc = "idle" /\ ureq'.pc # "idle"
  \/ ureq.pc = "idle" /\ lastEvt'.op \in {"updateProductHandler", "uploadProductImageHandler"}
  \/ lastEvt'.op \in {"createProductHandler", "deleteProductHandler"}

\* The answer of the chain of the admin product routes.
AdminOutcome ==
  ginCtx.group = "productsAdmin" =>
    IF ~BearerAccepted(ginCtx.secret, ginCtx.header)
      THEN ginCtx.status = 401 /\ ginCtx.by = "AuthMiddleware"
    ELSE IF ~AdminToken(ginCtx.secret, ginCtx.header)
      THEN ginCtx.status = 403 /\ ginCtx.by = "AdminMiddleware"
    ELSE ginCtx.status = 0

\* C13: the handlers of the admin product routes (create, update, delete,
\* image upload) are entered only for a valid token whose role is "admin";
\* authentication is checked before the role, so an unauthenticated request
\* gets 401 and an authenticated non-admin 403, and the step that answers 401
\* or 403 creates, changes and deletes no product.
C13_AdminRoutesNeedAdminRole ==
  [][/\ AdminOutcome'
     /\ AdminHandlerEntered =>
          ginCtx.group = "productsAdmin" /\ AdminToken(ginCtx.secret, ginCtx.header)
     /\ (ginCtx'.group = "productsAdmin" /\ lastEvt'.op \in {"AuthMiddleware", "AdminMiddleware"}) =>
          /\ lastEvt'.status = ginCtx'.status /\ lastEvt'.status \in {401, 403}
          /\ UNCHANGED <<products, orderProducts, ureq, redis>>]_vars

\* After an admin created product p2, a request with the token of a plain
\* user was answered 403 by AdminMiddleware.
C13_Witness ==
  /\ ginCtx.group = "productsAdmin" /\ ginCtx.header = Bearer("tokUser")
  /\ lastEvt.op = "AdminMiddleware" /\ lastEvt.status = 403
  /\ Found(products["p2"])

\* C14: a 200 answer of GET /orders lists exactly the order rows whose user
\* is the user ID of the context (every one of them once, none of another
\* user), newest created_at first, whatever query string the request carries.
C14_OrdersOfCallerOnly ==
  (lastEvt.op = "getOrdersHandler" /\ lastEvt.status = 200) =>
    LET rows == lastEvt.body.orders IN
    /\ {rows[i] : i \in 1..Len(rows)} = {o \in orders : o.user = lastEvt.who}
    /\ Len(rows) = Cardinality({o \in orders : o.user = lastEvt.who})
    /\ \A i, j \in 1..Len(rows) : i < j => rows[i].created > rows[j].created

\* Both accounts have an order; u1 asked with ?user_id=u2 and got its own.
C14_Witness ==
  /\ lastEvt.op = "getOrdersHandler" /\ lastEvt.status = 200 /\ lastEvt.who = "u1"
  /\ lastEvt.body.query = "user_id=u2"
  /\ Len(lastEvt.body.orders) = 1
  /\ \E o \in orders : o.user = "u2"

\* C15: whatever register requests ran, also concurrently with the same
\* username or the same email, no two stored users share a username and no
\* two share an email.
C15_UsernamesAndEmailsUnique ==
  \A u, v \in users : u # v => u.username # v.username /\ u.email # v.email

\* A request whose username and email were free when it arrived lost the
\* race: another request stored the same username first and the INSERT failed.
C15_Witness ==
  /\ lastEvt.op = "signUpHandler" /\ lastEvt.status = 500
  /\ ~lastEvt.body.held
  /\ \E u \in users : u.username = lastEvt.body.request.username

\* The step answers a register request.
SignUpAnswered == lastEvt'.op = "signUpHandler"

DuplicateErrors == {"Username is already taken", "Email is already registered"}

C17_LoginDoesNotRevealEmails ==
  (/\ lastEvt.op = "loginHandler"
   /\ lastEvt.body.request.password # ""
   /\ ValidateEmail(lastEvt.body.request.email) = ""
   /\ \/ \A u \in users : u.email # lastEvt.body.request.email
      \/ \E u \in users : /\ u.email = lastEvt.body.request.email
                          /\ u.password # Hash(lastEvt.body.request.password))
  => lastEvt.status = 401 /\ lastEvt.body.error = "Invalid credentials"

\* bob registered; a login with bob's email and another password got 401,
\* the answer the same login got before bob registered.
C17_Witness ==
  /\ lastEvt.op = "loginHandler" /\ lastEvt.status = 401
  /\ lastEvt.body.request = [email |-> "bob@x.io", password |-> "Admin123!"]
  /\ \E u \in users : u.email = "bob@x.io"

\* C18: no user stored by POST /auth/register has the role "admin", whatever
\* the request body holds.
C18_RegisterNeverMakesAdmin ==
  \A u \in users \ SeedUsers : u.role # "admin"

\* A body with "role": "admin" was registered.
C18_Witness ==
  /\ lastEvt.op = "signUpHandler" /\ lastEvt.status = 201
  /\ Has(lastEvt.body.request, "role") /\ lastEvt.body.request.role = "admin"
  /\ \E u \in users \ SeedUsers : u.username = lastEvt.body.request.username

\* C19: with JWT_SECRET set, the token GenerateJWT makes for a user (here at
\* a login with the right password) is accepted by ValidateJWT, and the
\* claims it returns hold the user's ID, name and email.
C19_JWTRoundTrip ==
  (/\ lastEvt.op = "loginHandler"
   /\ lastEvt.body.secret # ""
   /\ \E u \in users : /\ u.email = lastEvt.body.request.email
                       /\ u.password = Hash(lastEvt.body.request.password))
  => /\ lastEvt.status = 200
     /\ LET v == ParseWithClaims(lastEvt.body.secret, lastEvt.body.token) IN
        /\ ~v.err
        /\ \E u \in users : /\ u.email = lastEvt.body.request.email
                            /\ v.claims.userID = u.id
                            /\ v.claims.username = u.username
                            /\ v.claims.email = u.email

\* C20: after any sequence of product create, product update and order
\* requests, accepted or rejected, every stored product has stock >= 0 (and
\* so has every stock an open transaction has written).
C20_StockNeverNegative ==
  /\ \A p \in PIDs : Found(products[p]) => products[p].stock >= 0
  /\ \A t \in Txs, p \in PIDs : Found(otx[t].writes[p]) => otx[t].writes[p].stock >= 0

\* Orders have taken the whole stock of p1 and the next order for it was
\* rejected by the stock check.
C20_Witness ==
  /\ lastEvt.op = "createOrderCheck" /\ lastEvt.status = 400
  /\ Found(products["p1"]) /\ products["p1"].stock = 0
  /\ orders # {}

\* The product of the item transaction t is working on.
CurrentPid(t) == otx[t].items[otx[t].idx].pid

\* C21: within one createOrder transaction the product rows are locked in
\* the order the items are listed; for each item the row lock is taken before
\* the stock check, the check is made before the stock write, and the order
\* insert, the order_products insert and the commit come, in this order, only
\* after the stock writes of all items.
C21_StepsInOrder ==
  [][\A t \in Txs :
       /\ \A p \in PIDs : (rowLock'[p] = t /\ rowLock[p] # t) =>
            /\ otx[t].pc = "lock" /\ p = CurrentPid(t)
            /\ \A j \in 1..(otx[t].idx - 1) : rowLock[otx[t].items[j].pid] = t
       /\ (otx'[t].pc = "check" /\ otx[t].pc # "check") =>
            /\ otx[t].pc = "lock"
            /\ rowLock'[CurrentPid(t)] = t
            /\ otx'[t].cur = Visible(t, CurrentPid(t))
       /\ (otx'[t].pc = "save" /\ otx[t].pc # "save") =>
            /\ otx[t].pc = "check"
            /\ otx[t].cur.stock >= otx[t].items[otx[t].idx].qty
       /\ (otx'[t].pc # "idle" /\ otx'[t].writes # otx[t].writes) =>
            /\ otx[t].pc = "save" /\ rowLock[CurrentPid(t)] = t
            /\ otx'[t].idx = otx[t].idx + 1
       /\ (otx'[t].pc = "create" /\ otx[t].pc # "create") =>
            /\ otx[t].pc = "save" /\ otx[t].idx = Len(otx[t].items)
            /\ Len(otx'[t].ops) = Len(otx[t].items)
       /\ (otx'[t].pc = "createItems" /\ otx[t].pc # "createItems") => otx[t].pc = "create"
       /\ (otx'[t].pc = "commit" /\ otx[t].pc # "commit") => otx[t].pc = "createItems"
       /\ (otx[t].pc # "idle" /\ otx'[t].pc = "idle" /\ orders' # orders) =>
            /\ otx[t].pc = "commit"
            /\ \A i \in 1..Len(otx[t].items) :
                 /\ rowLock[otx[t].items[i].pid] = t
                 /\ otx[t].writes[otx[t].items[i].pid] # NoRow]_vars

\* An order of two different products is about to commit, holding both row
\* locks and both stock writes.
C21_Witness ==
  /\ otx["t1"].pc = "commit" /\ Len(otx["t1"].items) = 2
  /\ otx["t1"].items[1].pid = "p2" /\ otx["t1"].items[2].pid = "p1"
  /\ rowLock["p1"] = "t1" /\ rowLock["p2"] = "t1"

\* C22: every createOrder transaction eventually commits or rolls back, also
\* when two orders list the same two products in opposite order: none waits
\* forever for a row lock.
C22_EveryOrderEnds ==
  \A t \in Txs : (otx[t].pc # "idle") ~> (otx[t].pc = "idle")

\* Two orders wait for each other's row lock.
C22_Witness ==
  /\ WaitsFor("t1") = "t2" /\ WaitsFor("t2") = "t1"
  /\ otx["t1"].items[1].pid = otx["t2"].items[2].pid

C24_NoStaleListingEntry ==
  (lreq.pc = "idle" /\ ureq.pc = "idle") =>
     \A k \in CacheKeys : redis[k] # NoEntry => redis[k] = ListResponse(products, k)

\* The responses the handler wrote in the step that left event e: the step
\* recorded as createOrderPanic is the return from the deferred recover, on
\* which no c.JSON was called.
ResponsesWritten(e) == IF e.op = "createOrderPanic" \/ e = NoEvt THEN 0 ELSE 1

\* C25: every createOrder request that began a transaction ends with the
\* transaction committed or rolled back (no row lock and no pending write
\* left) and with exactly one response written, on every path, the one
\* through the deferred recover included.
C25_OneResponsePerOrder ==
  [][\A t \in Txs : (InFlight(t) /\ ~InFlight(t)') =>
        /\ \A p \in PIDs : rowLock'[p] # t /\ otx'[t].writes[p] = NoRow
        /\ orders' # orders \/ UNCHANGED <<products, orders, orderProducts>>
        /\ ResponsesWritten(lastEvt') = 1]_vars

\* C26: an order that names one product in two items is applied as a whole or
\* rejected as a whole: when its handler returns, either nothing was persisted
\* or an order row was, and in every state the units taken from a product's
\* stock are the units the persisted order_products rows account for.
C26_DuplicateItemsAllOrNothing ==
  [][/\ \A p \in PIDs : Found(products'[p]) =>
           stock0[p].stock - products'[p].stock = Deducted(p)'
     /\ \A t \in Txs : (InFlight(t) /\ ~InFlight(t)' /\ DuplicateKey(otx[t].items)) =>
           orders' # orders \/ UNCHANGED <<products, orders, orderProducts>>]_vars

\* An order of two items of the only product there is was refused when its
\* order_products rows were inserted, and the tables are as they were.
C26_Witness ==
  /\ lastEvt.op = "createOrderCreateItems" /\ lastEvt.status = 500 /\ lastEvt.n = 2
  /\ products["p2"] = NoRow
  /\ products = stock0 /\ orders = {} /\ orderProducts = {}

RECURSIVE SumPrice(_)
SumPrice(rows) ==
  IF rows = {} THEN 0
  ELSE LET r == CHOOSE x \in rows : TRUE IN r.price * r.qty + SumPrice(rows \ {r})

\* C27: an order_products row stores the price its product had, under the
\* order's row lock, when the order was made; the total of an order is the sum
\* of price times quantity over its rows; and no later step, a price update
\* included, changes a stored row or order.
C27_PriceAtOrderTime ==
  [][/\ \A r \in orderProducts' \ orderProducts :
           /\ rowLock[r.pid] \in Txs
           /\ r.price = products[r.pid].price
     /\ \A o \in orders' : o.total = SumPrice({r \in orderProducts' : r.order = o.id})
     /\ orderProducts \subseteq orderProducts' /\ orders \subseteq orders']_vars

\* A successful update has just given a product the price 2, and an order row
\* of that product stored at price 1 still says 1, as does the order's total.
C27_Witness ==
  /\ lastEvt.op = "updateProductHandler" /\ lastEvt.status = 200
  /\ \E r \in orderProducts, o \in orders :
        /\ r.pid = lastEvt.who /\ products[r.pid].price = 2
        /\ r.price = 1 /\ r.qty = 2 /\ o.id = r.order /\ o.total = 2

\* The step is the return of an update that had read its product.
UpdateReturns == ureq.pc = "loaded" /\ ureq'.pc = "idle"

\* C28: an update with an invalid supplied field answers 400 and persists
\* nothing: the step that answers 400 leaves the tables and the cache as they
\* were, whatever valid fields came before the invalid one, and a row an
\* update does write has a non-empty name, a positive price and a stock of at
\* least 0.
C28_InvalidUpdatePersistsNothing ==
  [][UpdateReturns =>
        /\ lastEvt'.status = 400 => UNCHANGED <<products, orders, orderProducts, redis>>
        /\ products' # products =>
             /\ lastEvt'.status = 200
             /\ products'[ureq.pid].name # ""
             /\ products'[ureq.pid].price > 0
             /\ products'[ureq.pid].stock >= 0]_vars

\* An update of p1 was answered 400 (each such body names a valid new name or
\* price before its invalid field) and p1 is as it was stored initially, while
\* the listing cache still holds an entry.
C28_Witness ==
  /\ lastEvt.op = "updateProductHandler" /\ lastEvt.status = 400 /\ lastEvt.who = "p1"
  /\ products["p1"] = stock0["p1"]
  /\ \E k \in CacheKeys : redis[k] # NoEntry

\* The product ids a listing response shows.
Listed(resp) == {resp.products[i].id : i \in 1..Len(resp.products)}

\* C29: deletion is permanent and repeat-safe: a deleted product stays deleted
\* (so that a later GET of it finds no row and answers 404), a listing request
\* made after the deletion shows no deleted product, also when it is answered
\* from the cache, and a DELETE of a deleted product answers 404 and changes
\* nothing.
C29_DeletionIsPermanent ==
  [][\A p \in PIDs : products[p] = Gone =>
        /\ products'[p] = Gone
        /\ (lreq.pc = "idle" /\ lastEvt'.op \in {"listProductsHit", "listProductsMiss"}
              /\ lastEvt'.status = 200) => p \notin Listed(lastEvt'.body)
        /\ (lreq.pc = "idle" /\ lreq'.pc = "fetched") => p \notin Listed(lreq'.resp)
        /\ (lastEvt'.op = "deleteProductHandler" /\ lastEvt'.who = p) =>
              /\ lastEvt'.status = 404
              /\ UNCHANGED <<products, orders, orderProducts, redis>>]_vars

\* The characters of str are an optional sign and then digits only, at least one.
IsNumber(str) ==
  LET first == IF Len(str) > 0 /\ str[1] \in {"-", "+"} THEN 2 ELSE 1 IN
  /\ Len(str) >= first
  /\ \A i \in first..Len(str) : IsDigit(str[i])

\* The value of a parameter that is present, a number and positive, else the
\* default.
Effective(str, default) ==
  IF str # <<>> /\ IsNumber(str) /\ parsePositiveInt(str).val > 0
  THEN parsePositiveInt(str).val ELSE default

\* The least n with n * b >= a.
Ceil(a, b) == CHOOSE n \in 0..a : n * b >= a /\ \A m \in 0..(n - 1) : m * b < a

\* The one query of PagingQueries with the search term of the key.
PagingQuery(key) == CHOOSE q \in PagingQueries : q.search = key.search

\* C30: a listing is answered with totalPages the ceiling of totalProducts by
\* the effective page size (0 when there are no products) and with pageSize
\* the number of products returned, at most the effective page size, where
\* the effective page and page size are the parameter when it is present, a
\* number and positive, and 1 and 10 otherwise.
C30_PagingArithmetic ==
  [][(lreq.pc = "fetched" /\ lreq'.pc = "idle") =>
        LET key  == lastEvt'.who
            resp == lastEvt'.body
            q    == PagingQuery(key)
        IN /\ key.page = Effective(q.page, 1)
           /\ key.size = Effective(IF q.pageSize # <<>> THEN q.pageSize ELSE q.limit, 10)
           /\ resp.totalPages = Ceil(resp.totalProducts, key.size)
           /\ resp.pageSize = Len(resp.products)
           /\ resp.pageSize <= key.size]_vars

====
